---- MODULE Spec2Model ----
(***************************************************************************)
(* Banking customer support pipeline: classifier (remote path with a      *)
(* heuristic fallback), router, feedback and query handlers, ticket store. *)
(*                                                                         *)
(* Text is a sequence of one-character strings, so that trimming, case     *)
(* folding, substring search and the ticket pattern are computed on the    *)
(* characters as the Python code computes them.                            *)
(***************************************************************************)
EXTENDS Integers, Sequences, FiniteSets, TLC

VARIABLES
    store,     \* the support_tickets table of support.db
    clock,     \* the last value datetime.utcnow() returned
    wiring,    \* the entry point the presentation layer calls
    req,       \* the requests: inputs, position, locals and returned value of each
    cmsg,      \* function call: the message argument
    cin,       \* function call: the other arguments and the environment of the call
    cres,      \* function call: what the call produced
    cphase,    \* function call: "input" before the call, then the function called
    hist       \* per ticket id, the status its callers last asked the store to record

vars == <<store, clock, wiring, req, cmsg, cin, cres, cphase, hist>>

-----------------------------------------------------------------------------
(* Bounds of the model *)

\* number of fragments a classifier input message is concatenated from
MaxFrags == 2

\* number of requests, all of which may run concurrently
NumReqs == 2

\* random.randint draws 0..MaxDraw
MaxDraw == 1

\* the clock advances up to MaxClock
MaxClock == 2

-----------------------------------------------------------------------------
(* Optional values: None is the empty sequence, a value x is <<x>> *)

None == << >>

Some(x) == << x >>

-----------------------------------------------------------------------------
(* Python str operations on character sequences                            *)
(*                                                                         *)
(* A character of Latin-1 is the one-character string of it; a character   *)
(* beyond Latin-1 is the string of its code point, as in "U+0661", and so  *)
(* are U+0000 and the grave accent U+0060. The tables are those of the     *)
(* Unicode 14.0.0 database that str and re use.                            *)

UpperChars ==
    <<"A", "B", "C", "D", "E", "F", "G", "H", "I", "J", "K", "L", "M",
      "N", "O", "P", "Q", "R", "S", "T", "U", "V", "W", "X", "Y", "Z">>

\* the characters of code points 0 to 255, in order
Latin1 ==
    <<
      "U+0000", "", "", "", "", "", "", "", "", "\t", "\n", "", "\f", "\r", "", "",
      "", "", "", "", "", "", "", "", "", "", "", "", "", "", "", "", " ", "!",
      "\"", "#", "$", "%", "&", "'", "(", ")", "*", "+", ",", "-", ".", "/", "0", "1", "2", "3",
      "4", "5", "6", "7", "8", "9", ":", ";", "<", "=", ">", "?", "@", "A", "B", "C", "D", "E",
      "F", "G", "H", "I", "J", "K", "L", "M", "N", "O", "P", "Q", "R", "S", "T", "U", "V", "W",
      "X", "Y", "Z", "[", "\\", "]", "^", "_", "U+0060", "a", "b", "c", "d", "e", "f", "g", "h",
      "i", "j", "k", "l", "m", "n", "o", "p", "q", "r", "s", "t", "u", "v", "w", "x", "y", "z",
      "{", "|", "}", "~", "", "", "", "", "", "", "", "", "", "", "", "", "", "",
      "", "", "", "", "", "", "", "", "", "", "", "", "", "", "", "", "", "",
      "", " ", "¡", "¢", "£", "¤", "¥", "¦", "§", "¨", "©", "ª", "«", "¬", "­", "®", "¯", "°",
      "±", "²", "³", "´", "µ", "¶", "·", "¸", "¹", "º", "»", "¼", "½", "¾", "¿", "À", "Á", "Â",
      "Ã", "Ä", "Å", "Æ", "Ç", "È", "É", "Ê", "Ë", "Ì", "Í", "Î", "Ï", "Ð", "Ñ", "Ò", "Ó", "Ô",
      "Õ", "Ö", "×", "Ø", "Ù", "Ú", "Û", "Ü", "Ý", "Þ", "ß", "à", "á", "â", "ã", "ä", "å", "æ",
      "ç", "è", "é", "ê", "ë", "ì", "í", "î", "ï", "ð", "ñ", "ò", "ó", "ô", "õ", "ö", "÷", "ø",
      "ù", "ú", "û", "ü", "ý", "þ", "ÿ"
    >>

\* n in hexadecimal, of width digits at least
RECURSIVE Hex(_, _)
Hex(n, width) ==
    LET HexDigits == <<"0", "1", "2", "3", "4", "5", "6", "7",
                       "8", "9", "A", "B", "C", "D", "E", "F">>
    IN  IF n = 0 /\ width <= 0 THEN ""
        ELSE Hex(n \div 16, width - 1) \o HexDigits[(n % 16) + 1]

\* chr(n): the character of code point n
CodePoint(n) == IF n < 256 THEN Latin1[n + 1] ELSE "U+" \o Hex(n, 4)

\* the characters of the code point ranges, each range given by its first and its last
CharsOf(ranges) ==
    {CodePoint(n) : n \in UNION {ranges[i][1]..ranges[i][2] : i \in 1..Len(ranges)}}

\* str.isspace(): the characters str.strip() drops
SpaceChars ==
    CharsOf(<<
      <<\h0009, \h000D>>, <<\h001C, \h0020>>, <<\h0085, \h0085>>, <<\h00A0, \h00A0>>,
      <<\h1680, \h1680>>, <<\h2000, \h200A>>, <<\h2028, \h2029>>, <<\h202F, \h202F>>,
      <<\h205F, \h205F>>, <<\h3000, \h3000>>
    >>)

\* what \d of a str pattern matches: the decimal digits of every script
Digits ==
    CharsOf(<<
      <<\h0030, \h0039>>, <<\h0660, \h0669>>, <<\h06F0, \h06F9>>, <<\h07C0, \h07C9>>,
      <<\h0966, \h096F>>, <<\h09E6, \h09EF>>, <<\h0A66, \h0A6F>>, <<\h0AE6, \h0AEF>>,
      <<\h0B66, \h0B6F>>, <<\h0BE6, \h0BEF>>, <<\h0C66, \h0C6F>>, <<\h0CE6, \h0CEF>>,
      <<\h0D66, \h0D6F>>, <<\h0DE6, \h0DEF>>, <<\h0E50, \h0E59>>, <<\h0ED0, \h0ED9>>,
      <<\h0F20, \h0F29>>, <<\h1040, \h1049>>, <<\h1090, \h1099>>, <<\h17E0, \h17E9>>,
      <<\h1810, \h1819>>, <<\h1946, \h194F>>, <<\h19D0, \h19D9>>, <<\h1A80, \h1A89>>,
      <<\h1A90, \h1A99>>, <<\h1B50, \h1B59>>, <<\h1BB0, \h1BB9>>, <<\h1C40, \h1C49>>,
      <<\h1C50, \h1C59>>, <<\hA620, \hA629>>, <<\hA8D0, \hA8D9>>, <<\hA900, \hA909>>,
      <<\hA9D0, \hA9D9>>, <<\hA9F0, \hA9F9>>, <<\hAA50, \hAA59>>, <<\hABF0, \hABF9>>,
      <<\hFF10, \hFF19>>, <<\h104A0, \h104A9>>, <<\h10D30, \h10D39>>, <<\h11066, \h1106F>>,
      <<\h110F0, \h110F9>>, <<\h11136, \h1113F>>, <<\h111D0, \h111D9>>, <<\h112F0, \h112F9>>,
      <<\h11450, \h11459>>, <<\h114D0, \h114D9>>, <<\h11650, \h11659>>, <<\h116C0, \h116C9>>,
      <<\h11730, \h11739>>, <<\h118E0, \h118E9>>, <<\h11950, \h11959>>, <<\h11C50, \h11C59>>,
      <<\h11D50, \h11D59>>, <<\h11DA0, \h11DA9>>, <<\h16A60, \h16A69>>, <<\h16AC0, \h16AC9>>,
      <<\h16B50, \h16B59>>, <<\h1D7CE, \h1D7FF>>, <<\h1E140, \h1E149>>, <<\h1E2F0, \h1E2F9>>,
      <<\h1E950, \h1E959>>, <<\h1FBF0, \h1FBF9>>
    >>)

\* what \w of a str pattern matches: the letters and digits of every script, and "_"
WordChars ==
    CharsOf(<<
      <<\h0030, \h0039>>, <<\h0041, \h005A>>, <<\h005F, \h005F>>, <<\h0061, \h007A>>,
      <<\h00AA, \h00AA>>, <<\h00B2, \h00B3>>, <<\h00B5, \h00B5>>, <<\h00B9, \h00BA>>,
      <<\h00BC, \h00BE>>, <<\h00C0, \h00D6>>, <<\h00D8, \h00F6>>, <<\h00F8, \h02C1>>,
      <<\h02C6, \h02D1>>, <<\h02E0, \h02E4>>, <<\h02EC, \h02EC>>, <<\h02EE, \h02EE>>,
      <<\h0370, \h0374>>, <<\h0376, \h0377>>, <<\h037A, \h037D>>, <<\h037F, \h037F>>,
      <<\h0386, \h0386>>, <<\h0388, \h038A>>, <<\h038C, \h038C>>, <<\h038E, \h03A1>>,
      <<\h03A3, \h03F5>>, <<\h03F7, \h0481>>, <<\h048A, \h052F>>, <<\h0531, \h0556>>,
      <<\h0559, \h0559>>, <<\h0560, \h0588>>, <<\h05D0, \h05EA>>, <<\h05EF, \h05F2>>,
      <<\h0620, \h064A>>, <<\h0660, \h0669>>, <<\h066E, \h066F>>, <<\h0671, \h06D3>>,
      <<\h06D5, \h06D5>>, <<\h06E5, \h06E6>>, <<\h06EE, \h06FC>>, <<\h06FF, \h06FF>>,
      <<\h0710, \h0710>>, <<\h0712, \h072F>>, <<\h074D, \h07A5>>, <<\h07B1, \h07B1>>,
      <<\h07C0, \h07EA>>, <<\h07F4, \h07F5>>, <<\h07FA, \h07FA>>, <<\h0800, \h0815>>,
      <<\h081A, \h081A>>, <<\h0824, \h0824>>, <<\h0828, \h0828>>, <<\h0840, \h0858>>,
      <<\h0860, \h086A>>, <<\h0870, \h0887>>, <<\h0889, \h088E>>, <<\h08A0, \h08C9>>,
      <<\h0904, \h0939>>, <<\h093D, \h093D>>, <<\h0950, \h0950>>, <<\h0958, \h0961>>,
      <<\h0966, \h096F>>, <<\h0971, \h0980>>, <<\h0985, \h098C>>, <<\h098F, \h0990>>,
      <<\h0993, \h09A8>>, <<\h09AA, \h09B0>>, <<\h09B2, \h09B2>>, <<\h09B6, \h09B9>>,
      <<\h09BD, \h09BD>>, <<\h09CE, \h09CE>>, <<\h09DC, \h09DD>>, <<\h09DF, \h09E1>>,
      <<\h09E6, \h09F1>>, <<\h09F4, \h09F9>>, <<\h09FC, \h09FC>>, <<\h0A05, \h0A0A>>,
      <<\h0A0F, \h0A10>>, <<\h0A13, \h0A28>>, <<\h0A2A, \h0A30>>, <<\h0A32, \h0A33>>,
      <<\h0A35, \h0A36>>, <<\h0A38, \h0A39>>, <<\h0A59, \h0A5C>>, <<\h0A5E, \h0A5E>>,
      <<\h0A66, \h0A6F>>, <<\h0A72, \h0A74>>, <<\h0A85, \h0A8D>>, <<\h0A8F, \h0A91>>,
      <<\h0A93, \h0AA8>>, <<\h0AAA, \h0AB0>>, <<\h0AB2, \h0AB3>>, <<\h0AB5, \h0AB9>>,
      <<\h0ABD, \h0ABD>>, <<\h0AD0, \h0AD0>>, <<\h0AE0, \h0AE1>>, <<\h0AE6, \h0AEF>>,
      <<\h0AF9, \h0AF9>>, <<\h0B05, \h0B0C>>, <<\h0B0F, \h0B10>>, <<\h0B13, \h0B28>>,
      <<\h0B2A, \h0B30>>, <<\h0B32, \h0B33>>, <<\h0B35, \h0B39>>, <<\h0B3D, \h0B3D>>,
      <<\h0B5C, \h0B5D>>, <<\h0B5F, \h0B61>>, <<\h0B66, \h0B6F>>, <<\h0B71, \h0B77>>,
      <<\h0B83, \h0B83>>, <<\h0B85, \h0B8A>>, <<\h0B8E, \h0B90>>, <<\h0B92, \h0B95>>,
      <<\h0B99, \h0B9A>>, <<\h0B9C, \h0B9C>>, <<\h0B9E, \h0B9F>>, <<\h0BA3, \h0BA4>>,
      <<\h0BA8, \h0BAA>>, <<\h0BAE, \h0BB9>>, <<\h0BD0, \h0BD0>>, <<\h0BE6, \h0BF2>>,
      <<\h0C05, \h0C0C>>, <<\h0C0E, \h0C10>>, <<\h0C12, \h0C28>>, <<\h0C2A, \h0C39>>,
      <<\h0C3D, \h0C3D>>, <<\h0C58, \h0C5A>>, <<\h0C5D, \h0C5D>>, <<\h0C60, \h0C61>>,
      <<\h0C66, \h0C6F>>, <<\h0C78, \h0C7E>>, <<\h0C80, \h0C80>>, <<\h0C85, \h0C8C>>,
      <<\h0C8E, \h0C90>>, <<\h0C92, \h0CA8>>, <<\h0CAA, \h0CB3>>, <<\h0CB5, \h0CB9>>,
      <<\h0CBD, \h0CBD>>, <<\h0CDD, \h0CDE>>, <<\h0CE0, \h0CE1>>, <<\h0CE6, \h0CEF>>,
      <<\h0CF1, \h0CF2>>, <<\h0D04, \h0D0C>>, <<\h0D0E, \h0D10>>, <<\h0D12, \h0D3A>>,
      <<\h0D3D, \h0D3D>>, <<\h0D4E, \h0D4E>>, <<\h0D54, \h0D56>>, <<\h0D58, \h0D61>>,
      <<\h0D66, \h0D78>>, <<\h0D7A, \h0D7F>>, <<\h0D85, \h0D96>>, <<\h0D9A, \h0DB1>>,
      <<\h0DB3, \h0DBB>>, <<\h0DBD, \h0DBD>>, <<\h0DC0, \h0DC6>>, <<\h0DE6, \h0DEF>>,
      <<\h0E01, \h0E30>>, <<\h0E32, \h0E33>>, <<\h0E40, \h0E46>>, <<\h0E50, \h0E59>>,
      <<\h0E81, \h0E82>>, <<\h0E84, \h0E84>>, <<\h0E86, \h0E8A>>, <<\h0E8C, \h0EA3>>,
      <<\h0EA5, \h0EA5>>, <<\h0EA7, \h0EB0>>, <<\h0EB2, \h0EB3>>, <<\h0EBD, \h0EBD>>,
      <<\h0EC0, \h0EC4>>, <<\h0EC6, \h0EC6>>, <<\h0ED0, \h0ED9>>, <<\h0EDC, \h0EDF>>,
      <<\h0F00, \h0F00>>, <<\h0F20, \h0F33>>, <<\h0F40, \h0F47>>, <<\h0F49, \h0F6C>>,
      <<\h0F88, \h0F8C>>, <<\h1000, \h102A>>, <<\h103F, \h1049>>, <<\h1050, \h1055>>,
      <<\h105A, \h105D>>, <<\h1061, \h1061>>, <<\h1065, \h1066>>, <<\h106E, \h1070>>,
      <<\h1075, \h1081>>, <<\h108E, \h108E>>, <<\h1090, \h1099>>, <<\h10A0, \h10C5>>,
      <<\h10C7, \h10C7>>, <<\h10CD, \h10CD>>, <<\h10D0, \h10FA>>, <<\h10FC, \h1248>>,
      <<\h124A, \h124D>>, <<\h1250, \h1256>>, <<\h1258, \h1258>>, <<\h125A, \h125D>>,
      <<\h1260, \h1288>>, <<\h128A, \h128D>>, <<\h1290, \h12B0>>, <<\h12B2, \h12B5>>,
      <<\h12B8, \h12BE>>, <<\h12C0, \h12C0>>, <<\h12C2, \h12C5>>, <<\h12C8, \h12D6>>,
      <<\h12D8, \h1310>>, <<\h1312, \h1315>>, <<\h1318, \h135A>>, <<\h1369, \h137C>>,
      <<\h1380, \h138F>>, <<\h13A0, \h13F5>>, <<\h13F8, \h13FD>>, <<\h1401, \h166C>>,
      <<\h166F, \h167F>>, <<\h1681, \h169A>>, <<\h16A0, \h16EA>>, <<\h16EE, \h16F8>>,
      <<\h1700, \h1711>>, <<\h171F, \h1731>>, <<\h1740, \h1751>>, <<\h1760, \h176C>>,
      <<\h176E, \h1770>>, <<\h1780, \h17B3>>, <<\h17D7, \h17D7>>, <<\h17DC, \h17DC>>,
      <<\h17E0, \h17E9>>, <<\h17F0, \h17F9>>, <<\h1810, \h1819>>, <<\h1820, \h1878>>,
      <<\h1880, \h1884>>, <<\h1887, \h18A8>>, <<\h18AA, \h18AA>>, <<\h18B0, \h18F5>>,
      <<\h1900, \h191E>>, <<\h1946, \h196D>>, <<\h1970, \h1974>>, <<\h1980, \h19AB>>,
      <<\h19B0, \h19C9>>, <<\h19D0, \h19DA>>, <<\h1A00, \h1A16>>, <<\h1A20, \h1A54>>,
      <<\h1A80, \h1A89>>, <<\h1A90, \h1A99>>, <<\h1AA7, \h1AA7>>, <<\h1B05, \h1B33>>,
      <<\h1B45, \h1B4C>>, <<\h1B50, \h1B59>>, <<\h1B83, \h1BA0>>, <<\h1BAE, \h1BE5>>,
      <<\h1C00, \h1C23>>, <<\h1C40, \h1C49>>, <<\h1C4D, \h1C7D>>, <<\h1C80, \h1C88>>,
      <<\h1C90, \h1CBA>>, <<\h1CBD, \h1CBF>>, <<\h1CE9, \h1CEC>>, <<\h1CEE, \h1CF3>>,
      <<\h1CF5, \h1CF6>>, <<\h1CFA, \h1CFA>>, <<\h1D00, \h1DBF>>, <<\h1E00, \h1F15>>,
      <<\h1F18, \h1F1D>>, <<\h1F20, \h1F45>>, <<\h1F48, \h1F4D>>, <<\h1F50, \h1F57>>,
      <<\h1F59, \h1F59>>, <<\h1F5B, \h1F5B>>, <<\h1F5D, \h1F5D>>, <<\h1F5F, \h1F7D>>,
      <<\h1F80, \h1FB4>>, <<\h1FB6, \h1FBC>>, <<\h1FBE, \h1FBE>>, <<\h1FC2, \h1FC4>>,
      <<\h1FC6, \h1FCC>>, <<\h1FD0, \h1FD3>>, <<\h1FD6, \h1FDB>>, <<\h1FE0, \h1FEC>>,
      <<\h1FF2, \h1FF4>>, <<\h1FF6, \h1FFC>>, <<\h2070, \h2071>>, <<\h2074, \h2079>>,
      <<\h207F, \h2089>>, <<\h2090, \h209C>>, <<\h2102, \h2102>>, <<\h2107, \h2107>>,
      <<\h210A, \h2113>>, <<\h2115, \h2115>>, <<\h2119, \h211D>>, <<\h2124, \h2124>>,
      <<\h2126, \h2126>>, <<\h2128, \h2128>>, <<\h212A, \h212D>>, <<\h212F, \h2139>>,
      <<\h213C, \h213F>>, <<\h2145, \h2149>>, <<\h214E, \h214E>>, <<\h2150, \h2189>>,
      <<\h2460, \h249B>>, <<\h24EA, \h24FF>>, <<\h2776, \h2793>>, <<\h2C00, \h2CE4>>,
      <<\h2CEB, \h2CEE>>, <<\h2CF2, \h2CF3>>, <<\h2CFD, \h2CFD>>, <<\h2D00, \h2D25>>,
      <<\h2D27, \h2D27>>, <<\h2D2D, \h2D2D>>, <<\h2D30, \h2D67>>, <<\h2D6F, \h2D6F>>,
      <<\h2D80, \h2D96>>, <<\h2DA0, \h2DA6>>, <<\h2DA8, \h2DAE>>, <<\h2DB0, \h2DB6>>,
      <<\h2DB8, \h2DBE>>, <<\h2DC0, \h2DC6>>, <<\h2DC8, \h2DCE>>, <<\h2DD0, \h2DD6>>,
      <<\h2DD8, \h2DDE>>, <<\h2E2F, \h2E2F>>, <<\h3005, \h3007>>, <<\h3021, \h3029>>,
      <<\h3031, \h3035>>, <<\h3038, \h303C>>, <<\h3041, \h3096>>, <<\h309D, \h309F>>,
      <<\h30A1, \h30FA>>, <<\h30FC, \h30FF>>, <<\h3105, \h312F>>, <<\h3131, \h318E>>,
      <<\h3192, \h3195>>, <<\h31A0, \h31BF>>, <<\h31F0, \h31FF>>, <<\h3220, \h3229>>,
      <<\h3248, \h324F>>, <<\h3251, \h325F>>, <<\h3280, \h3289>>, <<\h32B1, \h32BF>>,
      <<\h3400, \h4DBF>>, <<\h4E00, \hA48C>>, <<\hA4D0, \hA4FD>>, <<\hA500, \hA60C>>,
      <<\hA610, \hA62B>>, <<\hA640, \hA66E>>, <<\hA67F, \hA69D>>, <<\hA6A0, \hA6EF>>,
      <<\hA717, \hA71F>>, <<\hA722, \hA788>>, <<\hA78B, \hA7CA>>, <<\hA7D0, \hA7D1>>,
      <<\hA7D3, \hA7D3>>, <<\hA7D5, \hA7D9>>, <<\hA7F2, \hA801>>, <<\hA803, \hA805>>,
      <<\hA807, \hA80A>>, <<\hA80C, \hA822>>, <<\hA830, \hA835>>, <<\hA840, \hA873>>,
      <<\hA882, \hA8B3>>, <<\hA8D0, \hA8D9>>, <<\hA8F2, \hA8F7>>, <<\hA8FB, \hA8FB>>,
      <<\hA8FD, \hA8FE>>, <<\hA900, \hA925>>, <<\hA930, \hA946>>, <<\hA960, \hA97C>>,
      <<\hA984, \hA9B2>>, <<\hA9CF, \hA9D9>>, <<\hA9E0, \hA9E4>>, <<\hA9E6, \hA9FE>>,
      <<\hAA00, \hAA28>>, <<\hAA40, \hAA42>>, <<\hAA44, \hAA4B>>, <<\hAA50, \hAA59>>,
      <<\hAA60, \hAA76>>, <<\hAA7A, \hAA7A>>, <<\hAA7E, \hAAAF>>, <<\hAAB1, \hAAB1>>,
      <<\hAAB5, \hAAB6>>, <<\hAAB9, \hAABD>>, <<\hAAC0, \hAAC0>>, <<\hAAC2, \hAAC2>>,
      <<\hAADB, \hAADD>>, <<\hAAE0, \hAAEA>>, <<\hAAF2, \hAAF4>>, <<\hAB01, \hAB06>>,
      <<\hAB09, \hAB0E>>, <<\hAB11, \hAB16>>, <<\hAB20, \hAB26>>, <<\hAB28, \hAB2E>>,
      <<\hAB30, \hAB5A>>, <<\hAB5C, \hAB69>>, <<\hAB70, \hABE2>>, <<\hABF0, \hABF9>>,
      <<\hAC00, \hD7A3>>, <<\hD7B0, \hD7C6>>, <<\hD7CB, \hD7FB>>, <<\hF900, \hFA6D>>,
      <<\hFA70, \hFAD9>>, <<\hFB00, \hFB06>>, <<\hFB13, \hFB17>>, <<\hFB1D, \hFB1D>>,
      <<\hFB1F, \hFB28>>, <<\hFB2A, \hFB36>>, <<\hFB38, \hFB3C>>, <<\hFB3E, \hFB3E>>,
      <<\hFB40, \hFB41>>, <<\hFB43, \hFB44>>, <<\hFB46, \hFBB1>>, <<\hFBD3, \hFD3D>>,
      <<\hFD50, \hFD8F>>, <<\hFD92, \hFDC7>>, <<\hFDF0, \hFDFB>>, <<\hFE70, \hFE74>>,
      <<\hFE76, \hFEFC>>, <<\hFF10, \hFF19>>, <<\hFF21, \hFF3A>>, <<\hFF41, \hFF5A>>,
      <<\hFF66, \hFFBE>>, <<\hFFC2, \hFFC7>>, <<\hFFCA, \hFFCF>>, <<\hFFD2, \hFFD7>>,
      <<\hFFDA, \hFFDC>>, <<\h10000, \h1000B>>, <<\h1000D, \h10026>>, <<\h10028, \h1003A>>,
      <<\h1003C, \h1003D>>, <<\h1003F, \h1004D>>, <<\h10050, \h1005D>>, <<\h10080, \h100FA>>,
      <<\h10107, \h10133>>, <<\h10140, \h10178>>, <<\h1018A, \h1018B>>, <<\h10280, \h1029C>>,
      <<\h102A0, \h102D0>>, <<\h102E1, \h102FB>>, <<\h10300, \h10323>>, <<\h1032D, \h1034A>>,
      <<\h10350, \h10375>>, <<\h10380, \h1039D>>, <<\h103A0, \h103C3>>, <<\h103C8, \h103CF>>,
      <<\h103D1, \h103D5>>, <<\h10400, \h1049D>>, <<\h104A0, \h104A9>>, <<\h104B0, \h104D3>>,
      <<\h104D8, \h104FB>>, <<\h10500, \h10527>>, <<\h10530, \h10563>>, <<\h10570, \h1057A>>,
      <<\h1057C, \h1058A>>, <<\h1058C, \h10592>>, <<\h10594, \h10595>>, <<\h10597, \h105A1>>,
      <<\h105A3, \h105B1>>, <<\h105B3, \h105B9>>, <<\h105BB, \h105BC>>, <<\h10600, \h10736>>,
      <<\h10740, \h10755>>, <<\h10760, \h10767>>, <<\h10780, \h10785>>, <<\h10787, \h107B0>>,
      <<\h107B2, \h107BA>>, <<\h10800, \h10805>>, <<\h10808, \h10808>>, <<\h1080A, \h10835>>,
      <<\h10837, \h10838>>, <<\h1083C, \h1083C>>, <<\h1083F, \h10855>>, <<\h10858, \h10876>>,
      <<\h10879, \h1089E>>, <<\h108A7, \h108AF>>, <<\h108E0, \h108F2>>, <<\h108F4, \h108F5>>,
      <<\h108FB, \h1091B>>, <<\h10920, \h10939>>, <<\h10980, \h109B7>>, <<\h109BC, \h109CF>>,
      <<\h109D2, \h10A00>>, <<\h10A10, \h10A13>>, <<\h10A15, \h10A17>>, <<\h10A19, \h10A35>>,
      <<\h10A40, \h10A48>>, <<\h10A60, \h10A7E>>, <<\h10A80, \h10A9F>>, <<\h10AC0, \h10AC7>>,
      <<\h10AC9, \h10AE4>>, <<\h10AEB, \h10AEF>>, <<\h10B00, \h10B35>>, <<\h10B40, \h10B55>>,
      <<\h10B58, \h10B72>>, <<\h10B78, \h10B91>>, <<\h10BA9, \h10BAF>>, <<\h10C00, \h10C48>>,
      <<\h10C80, \h10CB2>>, <<\h10CC0, \h10CF2>>, <<\h10CFA, \h10D23>>, <<\h10D30, \h10D39>>,
      <<\h10E60, \h10E7E>>, <<\h10E80, \h10EA9>>, <<\h10EB0, \h10EB1>>, <<\h10F00, \h10F27>>,
      <<\h10F30, \h10F45>>, <<\h10F51, \h10F54>>, <<\h10F70, \h10F81>>, <<\h10FB0, \h10FCB>>,
      <<\h10FE0, \h10FF6>>, <<\h11003, \h11037>>, <<\h11052, \h1106F>>, <<\h11071, \h11072>>,
      <<\h11075, \h11075>>, <<\h11083, \h110AF>>, <<\h110D0, \h110E8>>, <<\h110F0, \h110F9>>,
      <<\h11103, \h11126>>, <<\h11136, \h1113F>>, <<\h11144, \h11144>>, <<\h11147, \h11147>>,
      <<\h11150, \h11172>>, <<\h11176, \h11176>>, <<\h11183, \h111B2>>, <<\h111C1, \h111C4>>,
      <<\h111D0, \h111DA>>, <<\h111DC, \h111DC>>, <<\h111E1, \h111F4>>, <<\h11200, \h11211>>,
      <<\h11213, \h1122B>>, <<\h11280, \h11286>>, <<\h11288, \h11288>>, <<\h1128A, \h1128D>>,
      <<\h1128F, \h1129D>>, <<\h1129F, \h112A8>>, <<\h112B0, \h112DE>>, <<\h112F0, \h112F9>>,
      <<\h11305, \h1130C>>, <<\h1130F, \h11310>>, <<\h11313, \h11328>>, <<\h1132A, \h11330>>,
      <<\h11332, \h11333>>, <<\h11335, \h11339>>, <<\h1133D, \h1133D>>, <<\h11350, \h11350>>,
      <<\h1135D, \h11361>>, <<\h11400, \h11434>>, <<\h11447, \h1144A>>, <<\h11450, \h11459>>,
      <<\h1145F, \h11461>>, <<\h11480, \h114AF>>, <<\h114C4, \h114C5>>, <<\h114C7, \h114C7>>,
      <<\h114D0, \h114D9>>, <<\h11580, \h115AE>>, <<\h115D8, \h115DB>>, <<\h11600, \h1162F>>,
      <<\h11644, \h11644>>, <<\h11650, \h11659>>, <<\h11680, \h116AA>>, <<\h116B8, \h116B8>>,
      <<\h116C0, \h116C9>>, <<\h11700, \h1171A>>, <<\h11730, \h1173B>>, <<\h11740, \h11746>>,
      <<\h11800, \h1182B>>, <<\h118A0, \h118F2>>, <<\h118FF, \h11906>>, <<\h11909, \h11909>>,
      <<\h1190C, \h11913>>, <<\h11915, \h11916>>, <<\h11918, \h1192F>>, <<\h1193F, \h1193F>>,
      <<\h11941, \h11941>>, <<\h11950, \h11959>>, <<\h119A0, \h119A7>>, <<\h119AA, \h119D0>>,
      <<\h119E1, \h119E1>>, <<\h119E3, \h119E3>>, <<\h11A00, \h11A00>>, <<\h11A0B, \h11A32>>,
      <<\h11A3A, \h11A3A>>, <<\h11A50, \h11A50>>, <<\h11A5C, \h11A89>>, <<\h11A9D, \h11A9D>>,
      <<\h11AB0, \h11AF8>>, <<\h11C00, \h11C08>>, <<\h11C0A, \h11C2E>>, <<\h11C40, \h11C40>>,
      <<\h11C50, \h11C6C>>, <<\h11C72, \h11C8F>>, <<\h11D00, \h11D06>>, <<\h11D08, \h11D09>>,
      <<\h11D0B, \h11D30>>, <<\h11D46, \h11D46>>, <<\h11D50, \h11D59>>, <<\h11D60, \h11D65>>,
      <<\h11D67, \h11D68>>, <<\h11D6A, \h11D89>>, <<\h11D98, \h11D98>>, <<\h11DA0, \h11DA9>>,
      <<\h11EE0, \h11EF2>>, <<\h11FB0, \h11FB0>>, <<\h11FC0, \h11FD4>>, <<\h12000, \h12399>>,
      <<\h12400, \h1246E>>, <<\h12480, \h12543>>, <<\h12F90, \h12FF0>>, <<\h13000, \h1342E>>,
      <<\h14400, \h14646>>, <<\h16800, \h16A38>>, <<\h16A40, \h16A5E>>, <<\h16A60, \h16A69>>,
      <<\h16A70, \h16ABE>>, <<\h16AC0, \h16AC9>>, <<\h16AD0, \h16AED>>, <<\h16B00, \h16B2F>>,
      <<\h16B40, \h16B43>>, <<\h16B50, \h16B59>>, <<\h16B5B, \h16B61>>, <<\h16B63, \h16B77>>,
      <<\h16B7D, \h16B8F>>, <<\h16E40, \h16E96>>, <<\h16F00, \h16F4A>>, <<\h16F50, \h16F50>>,
      <<\h16F93, \h16F9F>>, <<\h16FE0, \h16FE1>>, <<\h16FE3, \h16FE3>>, <<\h17000, \h187F7>>,
      <<\h18800, \h18CD5>>, <<\h18D00, \h18D08>>, <<\h1AFF0, \h1AFF3>>, <<\h1AFF5, \h1AFFB>>,
      <<\h1AFFD, \h1AFFE>>, <<\h1B000, \h1B122>>, <<\h1B150, \h1B152>>, <<\h1B164, \h1B167>>,
      <<\h1B170, \h1B2FB>>, <<\h1BC00, \h1BC6A>>, <<\h1BC70, \h1BC7C>>, <<\h1BC80, \h1BC88>>,
      <<\h1BC90, \h1BC99>>, <<\h1D2E0, \h1D2F3>>, <<\h1D360, \h1D378>>, <<\h1D400, \h1D454>>,
      <<\h1D456, \h1D49C>>, <<\h1D49E, \h1D49F>>, <<\h1D4A2, \h1D4A2>>, <<\h1D4A5, \h1D4A6>>,
      <<\h1D4A9, \h1D4AC>>, <<\h1D4AE, \h1D4B9>>, <<\h1D4BB, \h1D4BB>>, <<\h1D4BD, \h1D4C3>>,
      <<\h1D4C5, \h1D505>>, <<\h1D507, \h1D50A>>, <<\h1D50D, \h1D514>>, <<\h1D516, \h1D51C>>,
      <<\h1D51E, \h1D539>>, <<\h1D53B, \h1D53E>>, <<\h1D540, \h1D544>>, <<\h1D546, \h1D546>>,
      <<\h1D54A, \h1D550>>, <<\h1D552, \h1D6A5>>, <<\h1D6A8, \h1D6C0>>, <<\h1D6C2, \h1D6DA>>,
      <<\h1D6DC, \h1D6FA>>, <<\h1D6FC, \h1D714>>, <<\h1D716, \h1D734>>, <<\h1D736, \h1D74E>>,
      <<\h1D750, \h1D76E>>, <<\h1D770, \h1D788>>, <<\h1D78A, \h1D7A8>>, <<\h1D7AA, \h1D7C2>>,
      <<\h1D7C4, \h1D7CB>>, <<\h1D7CE, \h1D7FF>>, <<\h1DF00, \h1DF1E>>, <<\h1E100, \h1E12C>>,
      <<\h1E137, \h1E13D>>, <<\h1E140, \h1E149>>, <<\h1E14E, \h1E14E>>, <<\h1E290, \h1E2AD>>,
      <<\h1E2C0, \h1E2EB>>, <<\h1E2F0, \h1E2F9>>, <<\h1E7E0, \h1E7E6>>, <<\h1E7E8, \h1E7EB>>,
      <<\h1E7ED, \h1E7EE>>, <<\h1E7F0, \h1E7FE>>, <<\h1E800, \h1E8C4>>, <<\h1E8C7, \h1E8CF>>,
      <<\h1E900, \h1E943>>, <<\h1E94B, \h1E94B>>, <<\h1E950, \h1E959>>, <<\h1EC71, \h1ECAB>>,
      <<\h1ECAD, \h1ECAF>>, <<\h1ECB1, \h1ECB4>>, <<\h1ED01, \h1ED2D>>, <<\h1ED2F, \h1ED3D>>,
      <<\h1EE00, \h1EE03>>, <<\h1EE05, \h1EE1F>>, <<\h1EE21, \h1EE22>>, <<\h1EE24, \h1EE24>>,
      <<\h1EE27, \h1EE27>>, <<\h1EE29, \h1EE32>>, <<\h1EE34, \h1EE37>>, <<\h1EE39, \h1EE39>>,
      <<\h1EE3B, \h1EE3B>>, <<\h1EE42, \h1EE42>>, <<\h1EE47, \h1EE47>>, <<\h1EE49, \h1EE49>>,
      <<\h1EE4B, \h1EE4B>>, <<\h1EE4D, \h1EE4F>>, <<\h1EE51, \h1EE52>>, <<\h1EE54, \h1EE54>>,
      <<\h1EE57, \h1EE57>>, <<\h1EE59, \h1EE59>>, <<\h1EE5B, \h1EE5B>>, <<\h1EE5D, \h1EE5D>>,
      <<\h1EE5F, \h1EE5F>>, <<\h1EE61, \h1EE62>>, <<\h1EE64, \h1EE64>>, <<\h1EE67, \h1EE6A>>,
      <<\h1EE6C, \h1EE72>>, <<\h1EE74, \h1EE77>>, <<\h1EE79, \h1EE7C>>, <<\h1EE7E, \h1EE7E>>,
      <<\h1EE80, \h1EE89>>, <<\h1EE8B, \h1EE9B>>, <<\h1EEA1, \h1EEA3>>, <<\h1EEA5, \h1EEA9>>,
      <<\h1EEAB, \h1EEBB>>, <<\h1F100, \h1F10C>>, <<\h1FBF0, \h1FBF9>>, <<\h20000, \h2A6DF>>,
      <<\h2A700, \h2B738>>, <<\h2B740, \h2B81D>>, <<\h2B820, \h2CEA1>>, <<\h2CEB0, \h2EBE0>>,
      <<\h2F800, \h2FA1D>>, <<\h30000, \h3134A>>
    >>)

\* the characters with a case (Lowercase, Uppercase or titlecase)
CasedChars ==
    CharsOf(<<
      <<\h0041, \h005A>>, <<\h0061, \h007A>>, <<\h00AA, \h00AA>>, <<\h00B5, \h00B5>>,
      <<\h00BA, \h00BA>>, <<\h00C0, \h00D6>>, <<\h00D8, \h00F6>>, <<\h00F8, \h01BA>>,
      <<\h01BC, \h01BF>>, <<\h01C4, \h0293>>, <<\h0295, \h02B8>>, <<\h02C0, \h02C1>>,
      <<\h02E0, \h02E4>>, <<\h0345, \h0345>>, <<\h0370, \h0373>>, <<\h0376, \h0377>>,
      <<\h037A, \h037D>>, <<\h037F, \h037F>>, <<\h0386, \h0386>>, <<\h0388, \h038A>>,
      <<\h038C, \h038C>>, <<\h038E, \h03A1>>, <<\h03A3, \h03F5>>, <<\h03F7, \h0481>>,
      <<\h048A, \h052F>>, <<\h0531, \h0556>>, <<\h0560, \h0588>>, <<\h10A0, \h10C5>>,
      <<\h10C7, \h10C7>>, <<\h10CD, \h10CD>>, <<\h10D0, \h10FA>>, <<\h10FD, \h10FF>>,
      <<\h13A0, \h13F5>>, <<\h13F8, \h13FD>>, <<\h1C80, \h1C88>>, <<\h1C90, \h1CBA>>,
      <<\h1CBD, \h1CBF>>, <<\h1D00, \h1DBF>>, <<\h1E00, \h1F15>>, <<\h1F18, \h1F1D>>,
      <<\h1F20, \h1F45>>, <<\h1F48, \h1F4D>>, <<\h1F50, \h1F57>>, <<\h1F59, \h1F59>>,
      <<\h1F5B, \h1F5B>>, <<\h1F5D, \h1F5D>>, <<\h1F5F, \h1F7D>>, <<\h1F80, \h1FB4>>,
      <<\h1FB6, \h1FBC>>, <<\h1FBE, \h1FBE>>, <<\h1FC2, \h1FC4>>, <<\h1FC6, \h1FCC>>,
      <<\h1FD0, \h1FD3>>, <<\h1FD6, \h1FDB>>, <<\h1FE0, \h1FEC>>, <<\h1FF2, \h1FF4>>,
      <<\h1FF6, \h1FFC>>, <<\h2071, \h2071>>, <<\h207F, \h207F>>, <<\h2090, \h209C>>,
      <<\h2102, \h2102>>, <<\h2107, \h2107>>, <<\h210A, \h2113>>, <<\h2115, \h2115>>,
      <<\h2119, \h211D>>, <<\h2124, \h2124>>, <<\h2126, \h2126>>, <<\h2128, \h2128>>,
      <<\h212A, \h212D>>, <<\h212F, \h2134>>, <<\h2139, \h2139>>, <<\h213C, \h213F>>,
      <<\h2145, \h2149>>, <<\h214E, \h214E>>, <<\h2160, \h217F>>, <<\h2183, \h2184>>,
      <<\h24B6, \h24E9>>, <<\h2C00, \h2CE4>>, <<\h2CEB, \h2CEE>>, <<\h2CF2, \h2CF3>>,
      <<\h2D00, \h2D25>>, <<\h2D27, \h2D27>>, <<\h2D2D, \h2D2D>>, <<\hA640, \hA66D>>,
      <<\hA680, \hA69D>>, <<\hA722, \hA787>>, <<\hA78B, \hA78E>>, <<\hA790, \hA7CA>>,
      <<\hA7D0, \hA7D1>>, <<\hA7D3, \hA7D3>>, <<\hA7D5, \hA7D9>>, <<\hA7F5, \hA7F6>>,
      <<\hA7F8, \hA7FA>>, <<\hAB30, \hAB5A>>, <<\hAB5C, \hAB68>>, <<\hAB70, \hABBF>>,
      <<\hFB00, \hFB06>>, <<\hFB13, \hFB17>>, <<\hFF21, \hFF3A>>, <<\hFF41, \hFF5A>>,
      <<\h10400, \h1044F>>, <<\h104B0, \h104D3>>, <<\h104D8, \h104FB>>, <<\h10570, \h1057A>>,
      <<\h1057C, \h1058A>>, <<\h1058C, \h10592>>, <<\h10594, \h10595>>, <<\h10597, \h105A1>>,
      <<\h105A3, \h105B1>>, <<\h105B3, \h105B9>>, <<\h105BB, \h105BC>>, <<\h10780, \h10780>>,
      <<\h10783, \h10785>>, <<\h10787, \h107B0>>, <<\h107B2, \h107BA>>, <<\h10C80, \h10CB2>>,
      <<\h10CC0, \h10CF2>>, <<\h118A0, \h118DF>>, <<\h16E40, \h16E7F>>, <<\h1D400, \h1D454>>,
      <<\h1D456, \h1D49C>>, <<\h1D49E, \h1D49F>>, <<\h1D4A2, \h1D4A2>>, <<\h1D4A5, \h1D4A6>>,
      <<\h1D4A9, \h1D4AC>>, <<\h1D4AE, \h1D4B9>>, <<\h1D4BB, \h1D4BB>>, <<\h1D4BD, \h1D4C3>>,
      <<\h1D4C5, \h1D505>>, <<\h1D507, \h1D50A>>, <<\h1D50D, \h1D514>>, <<\h1D516, \h1D51C>>,
      <<\h1D51E, \h1D539>>, <<\h1D53B, \h1D53E>>, <<\h1D540, \h1D544>>, <<\h1D546, \h1D546>>,
      <<\h1D54A, \h1D550>>, <<\h1D552, \h1D6A5>>, <<\h1D6A8, \h1D6C0>>, <<\h1D6C2, \h1D6DA>>,
      <<\h1D6DC, \h1D6FA>>, <<\h1D6FC, \h1D714>>, <<\h1D716, \h1D734>>, <<\h1D736, \h1D74E>>,
      <<\h1D750, \h1D76E>>, <<\h1D770, \h1D788>>, <<\h1D78A, \h1D7A8>>, <<\h1D7AA, \h1D7C2>>,
      <<\h1D7C4, \h1D7CB>>, <<\h1DF00, \h1DF09>>, <<\h1DF0B, \h1DF1E>>, <<\h1E900, \h1E943>>,
      <<\h1F130, \h1F149>>, <<\h1F150, \h1F169>>, <<\h1F170, \h1F189>>
    >>)

\* the characters that str.lower() looks through when it decides whether a capital sigma
\* ends a word
CaseIgnorableChars ==
    CharsOf(<<
      <<\h0027, \h0027>>, <<\h002E, \h002E>>, <<\h003A, \h003A>>, <<\h005E, \h005E>>,
      <<\h0060, \h0060>>, <<\h00A8, \h00A8>>, <<\h00AD, \h00AD>>, <<\h00AF, \h00AF>>,
      <<\h00B4, \h00B4>>, <<\h00B7, \h00B8>>, <<\h02B0, \h036F>>, <<\h0374, \h0375>>,
      <<\h037A, \h037A>>, <<\h0384, \h0385>>, <<\h0387, \h0387>>, <<\h0483, \h0489>>,
      <<\h0559, \h0559>>, <<\h055F, \h055F>>, <<\h0591, \h05BD>>, <<\h05BF, \h05BF>>,
      <<\h05C1, \h05C2>>, <<\h05C4, \h05C5>>, <<\h05C7, \h05C7>>, <<\h05F4, \h05F4>>,
      <<\h0600, \h0605>>, <<\h0610, \h061A>>, <<\h061C, \h061C>>, <<\h0640, \h0640>>,
      <<\h064B, \h065F>>, <<\h0670, \h0670>>, <<\h06D6, \h06DD>>, <<\h06DF, \h06E8>>,
      <<\h06EA, \h06ED>>, <<\h070F, \h070F>>, <<\h0711, \h0711>>, <<\h0730, \h074A>>,
      <<\h07A6, \h07B0>>, <<\h07EB, \h07F5>>, <<\h07FA, \h07FA>>, <<\h07FD, \h07FD>>,
      <<\h0816, \h082D>>, <<\h0859, \h085B>>, <<\h0888, \h0888>>, <<\h0890, \h0891>>,
      <<\h0898, \h089F>>, <<\h08C9, \h0902>>, <<\h093A, \h093A>>, <<\h093C, \h093C>>,
      <<\h0941, \h0948>>, <<\h094D, \h094D>>, <<\h0951, \h0957>>, <<\h0962, \h0963>>,
      <<\h0971, \h0971>>, <<\h0981, \h0981>>, <<\h09BC, \h09BC>>, <<\h09C1, \h09C4>>,
      <<\h09CD, \h09CD>>, <<\h09E2, \h09E3>>, <<\h09FE, \h09FE>>, <<\h0A01, \h0A02>>,
      <<\h0A3C, \h0A3C>>, <<\h0A41, \h0A42>>, <<\h0A47, \h0A48>>, <<\h0A4B, \h0A4D>>,
      <<\h0A51, \h0A51>>, <<\h0A70, \h0A71>>, <<\h0A75, \h0A75>>, <<\h0A81, \h0A82>>,
      <<\h0ABC, \h0ABC>>, <<\h0AC1, \h0AC5>>, <<\h0AC7, \h0AC8>>, <<\h0ACD, \h0ACD>>,
      <<\h0AE2, \h0AE3>>, <<\h0AFA, \h0AFF>>, <<\h0B01, \h0B01>>, <<\h0B3C, \h0B3C>>,
      <<\h0B3F, \h0B3F>>, <<\h0B41, \h0B44>>, <<\h0B4D, \h0B4D>>, <<\h0B55, \h0B56>>,
      <<\h0B62, \h0B63>>, <<\h0B82, \h0B82>>, <<\h0BC0, \h0BC0>>, <<\h0BCD, \h0BCD>>,
      <<\h0C00, \h0C00>>, <<\h0C04, \h0C04>>, <<\h0C3C, \h0C3C>>, <<\h0C3E, \h0C40>>,
      <<\h0C46, \h0C48>>, <<\h0C4A, \h0C4D>>, <<\h0C55, \h0C56>>, <<\h0C62, \h0C63>>,
      <<\h0C81, \h0C81>>, <<\h0CBC, \h0CBC>>, <<\h0CBF, \h0CBF>>, <<\h0CC6, \h0CC6>>,
      <<\h0CCC, \h0CCD>>, <<\h0CE2, \h0CE3>>, <<\h0D00, \h0D01>>, <<\h0D3B, \h0D3C>>,
      <<\h0D41, \h0D44>>, <<\h0D4D, \h0D4D>>, <<\h0D62, \h0D63>>, <<\h0D81, \h0D81>>,
      <<\h0DCA, \h0DCA>>, <<\h0DD2, \h0DD4>>, <<\h0DD6, \h0DD6>>, <<\h0E31, \h0E31>>,
      <<\h0E34, \h0E3A>>, <<\h0E46, \h0E4E>>, <<\h0EB1, \h0EB1>>, <<\h0EB4, \h0EBC>>,
      <<\h0EC6, \h0EC6>>, <<\h0EC8, \h0ECD>>, <<\h0F18, \h0F19>>, <<\h0F35, \h0F35>>,
      <<\h0F37, \h0F37>>, <<\h0F39, \h0F39>>, <<\h0F71, \h0F7E>>, <<\h0F80, \h0F84>>,
      <<\h0F86, \h0F87>>, <<\h0F8D, \h0F97>>, <<\h0F99, \h0FBC>>, <<\h0FC6, \h0FC6>>,
      <<\h102D, \h1030>>, <<\h1032, \h1037>>, <<\h1039, \h103A>>, <<\h103D, \h103E>>,
      <<\h1058, \h1059>>, <<\h105E, \h1060>>, <<\h1071, \h1074>>, <<\h1082, \h1082>>,
      <<\h1085, \h1086>>, <<\h108D, \h108D>>, <<\h109D, \h109D>>, <<\h10FC, \h10FC>>,
      <<\h135D, \h135F>>, <<\h1712, \h1714>>, <<\h1732, \h1733>>, <<\h1752, \h1753>>,
      <<\h1772, \h1773>>, <<\h17B4, \h17B5>>, <<\h17B7, \h17BD>>, <<\h17C6, \h17C6>>,
      <<\h17C9, \h17D3>>, <<\h17D7, \h17D7>>, <<\h17DD, \h17DD>>, <<\h180B, \h180F>>,
      <<\h1843, \h1843>>, <<\h1885, \h1886>>, <<\h18A9, \h18A9>>, <<\h1920, \h1922>>,
      <<\h1927, \h1928>>, <<\h1932, \h1932>>, <<\h1939, \h193B>>, <<\h1A17, \h1A18>>,
      <<\h1A1B, \h1A1B>>, <<\h1A56, \h1A56>>, <<\h1A58, \h1A5E>>, <<\h1A60, \h1A60>>,
      <<\h1A62, \h1A62>>, <<\h1A65, \h1A6C>>, <<\h1A73, \h1A7C>>, <<\h1A7F, \h1A7F>>,
      <<\h1AA7, \h1AA7>>, <<\h1AB0, \h1ACE>>, <<\h1B00, \h1B03>>, <<\h1B34, \h1B34>>,
      <<\h1B36, \h1B3A>>, <<\h1B3C, \h1B3C>>, <<\h1B42, \h1B42>>, <<\h1B6B, \h1B73>>,
      <<\h1B80, \h1B81>>, <<\h1BA2, \h1BA5>>, <<\h1BA8, \h1BA9>>, <<\h1BAB, \h1BAD>>,
      <<\h1BE6, \h1BE6>>, <<\h1BE8, \h1BE9>>, <<\h1BED, \h1BED>>, <<\h1BEF, \h1BF1>>,
      <<\h1C2C, \h1C33>>, <<\h1C36, \h1C37>>, <<\h1C78, \h1C7D>>, <<\h1CD0, \h1CD2>>,
      <<\h1CD4, \h1CE0>>, <<\h1CE2, \h1CE8>>, <<\h1CED, \h1CED>>, <<\h1CF4, \h1CF4>>,
      <<\h1CF8, \h1CF9>>, <<\h1D2C, \h1D6A>>, <<\h1D78, \h1D78>>, <<\h1D9B, \h1DFF>>,
      <<\h1FBD, \h1FBD>>, <<\h1FBF, \h1FC1>>, <<\h1FCD, \h1FCF>>, <<\h1FDD, \h1FDF>>,
      <<\h1FED, \h1FEF>>, <<\h1FFD, \h1FFE>>, <<\h200B, \h200F>>, <<\h2018, \h2019>>,
      <<\h2024, \h2024>>, <<\h2027, \h2027>>, <<\h202A, \h202E>>, <<\h2060, \h2064>>,
      <<\h2066, \h206F>>, <<\h2071, \h2071>>, <<\h207F, \h207F>>, <<\h2090, \h209C>>,
      <<\h20D0, \h20F0>>, <<\h2C7C, \h2C7D>>, <<\h2CEF, \h2CF1>>, <<\h2D6F, \h2D6F>>,
      <<\h2D7F, \h2D7F>>, <<\h2DE0, \h2DFF>>, <<\h2E2F, \h2E2F>>, <<\h3005, \h3005>>,
      <<\h302A, \h302D>>, <<\h3031, \h3035>>, <<\h303B, \h303B>>, <<\h3099, \h309E>>,
      <<\h30FC, \h30FE>>, <<\hA015, \hA015>>, <<\hA4F8, \hA4FD>>, <<\hA60C, \hA60C>>,
      <<\hA66F, \hA672>>, <<\hA674, \hA67D>>, <<\hA67F, \hA67F>>, <<\hA69C, \hA69F>>,
      <<\hA6F0, \hA6F1>>, <<\hA700, \hA721>>, <<\hA770, \hA770>>, <<\hA788, \hA78A>>,
      <<\hA7F2, \hA7F4>>, <<\hA7F8, \hA7F9>>, <<\hA802, \hA802>>, <<\hA806, \hA806>>,
      <<\hA80B, \hA80B>>, <<\hA825, \hA826>>, <<\hA82C, \hA82C>>, <<\hA8C4, \hA8C5>>,
      <<\hA8E0, \hA8F1>>, <<\hA8FF, \hA8FF>>, <<\hA926, \hA92D>>, <<\hA947, \hA951>>,
      <<\hA980, \hA982>>, <<\hA9B3, \hA9B3>>, <<\hA9B6, \hA9B9>>, <<\hA9BC, \hA9BD>>,
      <<\hA9CF, \hA9CF>>, <<\hA9E5, \hA9E6>>, <<\hAA29, \hAA2E>>, <<\hAA31, \hAA32>>,
      <<\hAA35, \hAA36>>, <<\hAA43, \hAA43>>, <<\hAA4C, \hAA4C>>, <<\hAA70, \hAA70>>,
      <<\hAA7C, \hAA7C>>, <<\hAAB0, \hAAB0>>, <<\hAAB2, \hAAB4>>, <<\hAAB7, \hAAB8>>,
      <<\hAABE, \hAABF>>, <<\hAAC1, \hAAC1>>, <<\hAADD, \hAADD>>, <<\hAAEC, \hAAED>>,
      <<\hAAF3, \hAAF4>>, <<\hAAF6, \hAAF6>>, <<\hAB5B, \hAB5F>>, <<\hAB69, \hAB6B>>,
      <<\hABE5, \hABE5>>, <<\hABE8, \hABE8>>, <<\hABED, \hABED>>, <<\hFB1E, \hFB1E>>,
      <<\hFBB2, \hFBC2>>, <<\hFE00, \hFE0F>>, <<\hFE13, \hFE13>>, <<\hFE20, \hFE2F>>,
      <<\hFE52, \hFE52>>, <<\hFE55, \hFE55>>, <<\hFEFF, \hFEFF>>, <<\hFF07, \hFF07>>,
      <<\hFF0E, \hFF0E>>, <<\hFF1A, \hFF1A>>, <<\hFF3E, \hFF3E>>, <<\hFF40, \hFF40>>,
      <<\hFF70, \hFF70>>, <<\hFF9E, \hFF9F>>, <<\hFFE3, \hFFE3>>, <<\hFFF9, \hFFFB>>,
      <<\h101FD, \h101FD>>, <<\h102E0, \h102E0>>, <<\h10376, \h1037A>>, <<\h10780, \h10785>>,
      <<\h10787, \h107B0>>, <<\h107B2, \h107BA>>, <<\h10A01, \h10A03>>, <<\h10A05, \h10A06>>,
      <<\h10A0C, \h10A0F>>, <<\h10A38, \h10A3A>>, <<\h10A3F, \h10A3F>>, <<\h10AE5, \h10AE6>>,
      <<\h10D24, \h10D27>>, <<\h10EAB, \h10EAC>>, <<\h10F46, \h10F50>>, <<\h10F82, \h10F85>>,
      <<\h11001, \h11001>>, <<\h11038, \h11046>>, <<\h11070, \h11070>>, <<\h11073, \h11074>>,
      <<\h1107F, \h11081>>, <<\h110B3, \h110B6>>, <<\h110B9, \h110BA>>, <<\h110BD, \h110BD>>,
      <<\h110C2, \h110C2>>, <<\h110CD, \h110CD>>, <<\h11100, \h11102>>, <<\h11127, \h1112B>>,
      <<\h1112D, \h11134>>, <<\h11173, \h11173>>, <<\h11180, \h11181>>, <<\h111B6, \h111BE>>,
      <<\h111C9, \h111CC>>, <<\h111CF, \h111CF>>, <<\h1122F, \h11231>>, <<\h11234, \h11234>>,
      <<\h11236, \h11237>>, <<\h1123E, \h1123E>>, <<\h112DF, \h112DF>>, <<\h112E3, \h112EA>>,
      <<\h11300, \h11301>>, <<\h1133B, \h1133C>>, <<\h11340, \h11340>>, <<\h11366, \h1136C>>,
      <<\h11370, \h11374>>, <<\h11438, \h1143F>>, <<\h11442, \h11444>>, <<\h11446, \h11446>>,
      <<\h1145E, \h1145E>>, <<\h114B3, \h114B8>>, <<\h114BA, \h114BA>>, <<\h114BF, \h114C0>>,
      <<\h114C2, \h114C3>>, <<\h115B2, \h115B5>>, <<\h115BC, \h115BD>>, <<\h115BF, \h115C0>>,
      <<\h115DC, \h115DD>>, <<\h11633, \h1163A>>, <<\h1163D, \h1163D>>, <<\h1163F, \h11640>>,
      <<\h116AB, \h116AB>>, <<\h116AD, \h116AD>>, <<\h116B0, \h116B5>>, <<\h116B7, \h116B7>>,
      <<\h1171D, \h1171F>>, <<\h11722, \h11725>>, <<\h11727, \h1172B>>, <<\h1182F, \h11837>>,
      <<\h11839, \h1183A>>, <<\h1193B, \h1193C>>, <<\h1193E, \h1193E>>, <<\h11943, \h11943>>,
      <<\h119D4, \h119D7>>, <<\h119DA, \h119DB>>, <<\h119E0, \h119E0>>, <<\h11A01, \h11A0A>>,
      <<\h11A33, \h11A38>>, <<\h11A3B, \h11A3E>>, <<\h11A47, \h11A47>>, <<\h11A51, \h11A56>>,
      <<\h11A59, \h11A5B>>, <<\h11A8A, \h11A96>>, <<\h11A98, \h11A99>>, <<\h11C30, \h11C36>>,
      <<\h11C38, \h11C3D>>, <<\h11C3F, \h11C3F>>, <<\h11C92, \h11CA7>>, <<\h11CAA, \h11CB0>>,
      <<\h11CB2, \h11CB3>>, <<\h11CB5, \h11CB6>>, <<\h11D31, \h11D36>>, <<\h11D3A, \h11D3A>>,
      <<\h11D3C, \h11D3D>>, <<\h11D3F, \h11D45>>, <<\h11D47, \h11D47>>, <<\h11D90, \h11D91>>,
      <<\h11D95, \h11D95>>, <<\h11D97, \h11D97>>, <<\h11EF3, \h11EF4>>, <<\h13430, \h13438>>,
      <<\h16AF0, \h16AF4>>, <<\h16B30, \h16B36>>, <<\h16B40, \h16B43>>, <<\h16F4F, \h16F4F>>,
      <<\h16F8F, \h16F9F>>, <<\h16FE0, \h16FE1>>, <<\h16FE3, \h16FE4>>, <<\h1AFF0, \h1AFF3>>,
      <<\h1AFF5, \h1AFFB>>, <<\h1AFFD, \h1AFFE>>, <<\h1BC9D, \h1BC9E>>, <<\h1BCA0, \h1BCA3>>,
      <<\h1CF00, \h1CF2D>>, <<\h1CF30, \h1CF46>>, <<\h1D167, \h1D169>>, <<\h1D173, \h1D182>>,
      <<\h1D185, \h1D18B>>, <<\h1D1AA, \h1D1AD>>, <<\h1D242, \h1D244>>, <<\h1DA00, \h1DA36>>,
      <<\h1DA3B, \h1DA6C>>, <<\h1DA75, \h1DA75>>, <<\h1DA84, \h1DA84>>, <<\h1DA9B, \h1DA9F>>,
      <<\h1DAA1, \h1DAAF>>, <<\h1E000, \h1E006>>, <<\h1E008, \h1E018>>, <<\h1E01B, \h1E021>>,
      <<\h1E023, \h1E024>>, <<\h1E026, \h1E02A>>, <<\h1E130, \h1E13D>>, <<\h1E2AE, \h1E2AE>>,
      <<\h1E2EC, \h1E2EF>>, <<\h1E8D0, \h1E8D6>>, <<\h1E944, \h1E94B>>, <<\h1F3FB, \h1F3FF>>,
      <<\hE0001, \hE0001>>, <<\hE0020, \hE007F>>, <<\hE0100, \hE01EF>>
    >>)

\* str.upper() where it gives one character: <<first, last, step, to>> takes the code
\* points first, first + step, ... up to last onto to, to + step, ...
UpperRuns ==
    <<
      <<\h0061, \h007A, 1, \h0041>>, <<\h00B5, \h00B5, 1, \h039C>>,
      <<\h00E0, \h00F6, 1, \h00C0>>, <<\h00F8, \h00FE, 1, \h00D8>>,
      <<\h00FF, \h00FF, 1, \h0178>>, <<\h0101, \h012F, 2, \h0100>>,
      <<\h0131, \h0131, 1, \h0049>>, <<\h0133, \h0137, 2, \h0132>>,
      <<\h013A, \h0148, 2, \h0139>>, <<\h014B, \h0177, 2, \h014A>>,
      <<\h017A, \h017E, 2, \h0179>>, <<\h017F, \h017F, 1, \h0053>>,
      <<\h0180, \h0180, 1, \h0243>>, <<\h0183, \h0185, 2, \h0182>>,
      <<\h0188, \h0188, 1, \h0187>>, <<\h018C, \h018C, 1, \h018B>>,
      <<\h0192, \h0192, 1, \h0191>>, <<\h0195, \h0195, 1, \h01F6>>,
      <<\h0199, \h0199, 1, \h0198>>, <<\h019A, \h019A, 1, \h023D>>,
      <<\h019E, \h019E, 1, \h0220>>, <<\h01A1, \h01A5, 2, \h01A0>>,
      <<\h01A8, \h01A8, 1, \h01A7>>, <<\h01AD, \h01AD, 1, \h01AC>>,
      <<\h01B0, \h01B0, 1, \h01AF>>, <<\h01B4, \h01B6, 2, \h01B3>>,
      <<\h01B9, \h01B9, 1, \h01B8>>, <<\h01BD, \h01BD, 1, \h01BC>>,
      <<\h01BF, \h01BF, 1, \h01F7>>, <<\h01C5, \h01C5, 1, \h01C4>>,
      <<\h01C6, \h01C6, 1, \h01C4>>, <<\h01C8, \h01C8, 1, \h01C7>>,
      <<\h01C9, \h01C9, 1, \h01C7>>, <<\h01CB, \h01CB, 1, \h01CA>>,
      <<\h01CC, \h01CC, 1, \h01CA>>, <<\h01CE, \h01DC, 2, \h01CD>>,
      <<\h01DD, \h01DD, 1, \h018E>>, <<\h01DF, \h01EF, 2, \h01DE>>,
      <<\h01F2, \h01F2, 1, \h01F1>>, <<\h01F3, \h01F3, 1, \h01F1>>,
      <<\h01F5, \h01F5, 1, \h01F4>>, <<\h01F9, \h021F, 2, \h01F8>>,
      <<\h0223, \h0233, 2, \h0222>>, <<\h023C, \h023C, 1, \h023B>>,
      <<\h023F, \h0240, 1, \h2C7E>>, <<\h0242, \h0242, 1, \h0241>>,
      <<\h0247, \h024F, 2, \h0246>>, <<\h0250, \h0250, 1, \h2C6F>>,
      <<\h0251, \h0251, 1, \h2C6D>>, <<\h0252, \h0252, 1, \h2C70>>,
      <<\h0253, \h0253, 1, \h0181>>, <<\h0254, \h0254, 1, \h0186>>,
      <<\h0256, \h0257, 1, \h0189>>, <<\h0259, \h0259, 1, \h018F>>,
      <<\h025B, \h025B, 1, \h0190>>, <<\h025C, \h025C, 1, \hA7AB>>,
      <<\h0260, \h0260, 1, \h0193>>, <<\h0261, \h0261, 1, \hA7AC>>,
      <<\h0263, \h0263, 1, \h0194>>, <<\h0265, \h0265, 1, \hA78D>>,
      <<\h0266, \h0266, 1, \hA7AA>>, <<\h0268, \h0268, 1, \h0197>>,
      <<\h0269, \h0269, 1, \h0196>>, <<\h026A, \h026A, 1, \hA7AE>>,
      <<\h026B, \h026B, 1, \h2C62>>, <<\h026C, \h026C, 1, \hA7AD>>,
      <<\h026F, \h026F, 1, \h019C>>, <<\h0271, \h0271, 1, \h2C6E>>,
      <<\h0272, \h0272, 1, \h019D>>, <<\h0275, \h0275, 1, \h019F>>,
      <<\h027D, \h027D, 1, \h2C64>>, <<\h0280, \h0280, 1, \h01A6>>,
      <<\h0282, \h0282, 1, \hA7C5>>, <<\h0283, \h0283, 1, \h01A9>>,
      <<\h0287, \h0287, 1, \hA7B1>>, <<\h0288, \h0288, 1, \h01AE>>,
      <<\h0289, \h0289, 1, \h0244>>, <<\h028A, \h028B, 1, \h01B1>>,
      <<\h028C, \h028C, 1, \h0245>>, <<\h0292, \h0292, 1, \h01B7>>,
      <<\h029D, \h029D, 1, \hA7B2>>, <<\h029E, \h029E, 1, \hA7B0>>,
      <<\h0345, \h0345, 1, \h0399>>, <<\h0371, \h0373, 2, \h0370>>,
      <<\h0377, \h0377, 1, \h0376>>, <<\h037B, \h037D, 1, \h03FD>>,
      <<\h03AC, \h03AC, 1, \h0386>>, <<\h03AD, \h03AF, 1, \h0388>>,
      <<\h03B1, \h03C1, 1, \h0391>>, <<\h03C2, \h03C2, 1, \h03A3>>,
      <<\h03C3, \h03CB, 1, \h03A3>>, <<\h03CC, \h03CC, 1, \h038C>>,
      <<\h03CD, \h03CE, 1, \h038E>>, <<\h03D0, \h03D0, 1, \h0392>>,
      <<\h03D1, \h03D1, 1, \h0398>>, <<\h03D5, \h03D5, 1, \h03A6>>,
      <<\h03D6, \h03D6, 1, \h03A0>>, <<\h03D7, \h03D7, 1, \h03CF>>,
      <<\h03D9, \h03EF, 2, \h03D8>>, <<\h03F0, \h03F0, 1, \h039A>>,
      <<\h03F1, \h03F1, 1, \h03A1>>, <<\h03F2, \h03F2, 1, \h03F9>>,
      <<\h03F3, \h03F3, 1, \h037F>>, <<\h03F5, \h03F5, 1, \h0395>>,
      <<\h03F8, \h03F8, 1, \h03F7>>, <<\h03FB, \h03FB, 1, \h03FA>>,
      <<\h0430, \h044F, 1, \h0410>>, <<\h0450, \h045F, 1, \h0400>>,
      <<\h0461, \h0481, 2, \h0460>>, <<\h048B, \h04BF, 2, \h048A>>,
      <<\h04C2, \h04CE, 2, \h04C1>>, <<\h04CF, \h04CF, 1, \h04C0>>,
      <<\h04D1, \h052F, 2, \h04D0>>, <<\h0561, \h0586, 1, \h0531>>,
      <<\h10D0, \h10FA, 1, \h1C90>>, <<\h10FD, \h10FF, 1, \h1CBD>>,
      <<\h13F8, \h13FD, 1, \h13F0>>, <<\h1C80, \h1C80, 1, \h0412>>,
      <<\h1C81, \h1C81, 1, \h0414>>, <<\h1C82, \h1C82, 1, \h041E>>,
      <<\h1C83, \h1C84, 1, \h0421>>, <<\h1C85, \h1C85, 1, \h0422>>,
      <<\h1C86, \h1C86, 1, \h042A>>, <<\h1C87, \h1C87, 1, \h0462>>,
      <<\h1C88, \h1C88, 1, \hA64A>>, <<\h1D79, \h1D79, 1, \hA77D>>,
      <<\h1D7D, \h1D7D, 1, \h2C63>>, <<\h1D8E, \h1D8E, 1, \hA7C6>>,
      <<\h1E01, \h1E95, 2, \h1E00>>, <<\h1E9B, \h1E9B, 1, \h1E60>>,
      <<\h1EA1, \h1EFF, 2, \h1EA0>>, <<\h1F00, \h1F07, 1, \h1F08>>,
      <<\h1F10, \h1F15, 1, \h1F18>>, <<\h1F20, \h1F27, 1, \h1F28>>,
      <<\h1F30, \h1F37, 1, \h1F38>>, <<\h1F40, \h1F45, 1, \h1F48>>,
      <<\h1F51, \h1F57, 2, \h1F59>>, <<\h1F60, \h1F67, 1, \h1F68>>,
      <<\h1F70, \h1F71, 1, \h1FBA>>, <<\h1F72, \h1F75, 1, \h1FC8>>,
      <<\h1F76, \h1F77, 1, \h1FDA>>, <<\h1F78, \h1F79, 1, \h1FF8>>,
      <<\h1F7A, \h1F7B, 1, \h1FEA>>, <<\h1F7C, \h1F7D, 1, \h1FFA>>,
      <<\h1FB0, \h1FB1, 1, \h1FB8>>, <<\h1FBE, \h1FBE, 1, \h0399>>,
      <<\h1FD0, \h1FD1, 1, \h1FD8>>, <<\h1FE0, \h1FE1, 1, \h1FE8>>,
      <<\h1FE5, \h1FE5, 1, \h1FEC>>, <<\h214E, \h214E, 1, \h2132>>,
      <<\h2170, \h217F, 1, \h2160>>, <<\h2184, \h2184, 1, \h2183>>,
      <<\h24D0, \h24E9, 1, \h24B6>>, <<\h2C30, \h2C5F, 1, \h2C00>>,
      <<\h2C61, \h2C61, 1, \h2C60>>, <<\h2C65, \h2C65, 1, \h023A>>,
      <<\h2C66, \h2C66, 1, \h023E>>, <<\h2C68, \h2C6C, 2, \h2C67>>,
      <<\h2C73, \h2C73, 1, \h2C72>>, <<\h2C76, \h2C76, 1, \h2C75>>,
      <<\h2C81, \h2CE3, 2, \h2C80>>, <<\h2CEC, \h2CEE, 2, \h2CEB>>,
      <<\h2CF3, \h2CF3, 1, \h2CF2>>, <<\h2D00, \h2D25, 1, \h10A0>>,
      <<\h2D27, \h2D27, 1, \h10C7>>, <<\h2D2D, \h2D2D, 1, \h10CD>>,
      <<\hA641, \hA66D, 2, \hA640>>, <<\hA681, \hA69B, 2, \hA680>>,
      <<\hA723, \hA72F, 2, \hA722>>, <<\hA733, \hA76F, 2, \hA732>>,
      <<\hA77A, \hA77C, 2, \hA779>>, <<\hA77F, \hA787, 2, \hA77E>>,
      <<\hA78C, \hA78C, 1, \hA78B>>, <<\hA791, \hA793, 2, \hA790>>,
      <<\hA794, \hA794, 1, \hA7C4>>, <<\hA797, \hA7A9, 2, \hA796>>,
      <<\hA7B5, \hA7C3, 2, \hA7B4>>, <<\hA7C8, \hA7CA, 2, \hA7C7>>,
      <<\hA7D1, \hA7D1, 1, \hA7D0>>, <<\hA7D7, \hA7D9, 2, \hA7D6>>,
      <<\hA7F6, \hA7F6, 1, \hA7F5>>, <<\hAB53, \hAB53, 1, \hA7B3>>,
      <<\hAB70, \hABBF, 1, \h13A0>>, <<\hFF41, \hFF5A, 1, \hFF21>>,
      <<\h10428, \h1044F, 1, \h10400>>, <<\h104D8, \h104FB, 1, \h104B0>>,
      <<\h10597, \h105BB, 2, \h10570>>, <<\h10598, \h105A0, 2, \h10571>>,
      <<\h105A4, \h105B0, 2, \h1057D>>, <<\h105B4, \h105B8, 2, \h1058D>>,
      <<\h105BC, \h105BC, 1, \h10595>>, <<\h10CC0, \h10CF2, 1, \h10C80>>,
      <<\h118C0, \h118DF, 1, \h118A0>>, <<\h16E60, \h16E7F, 1, \h16E40>>,
      <<\h1E922, \h1E943, 1, \h1E900>>
    >>

\* str.upper() where it gives more than one character: the code point, and those of
\* the result
UpperSpecial ==
    <<
      <<\h00DF, <<\h0053, \h0053>>>>, <<\h0149, <<\h02BC, \h004E>>>>,
      <<\h01F0, <<\h004A, \h030C>>>>, <<\h0390, <<\h0399, \h0308, \h0301>>>>,
      <<\h03B0, <<\h03A5, \h0308, \h0301>>>>, <<\h0587, <<\h0535, \h0552>>>>,
      <<\h1E96, <<\h0048, \h0331>>>>, <<\h1E97, <<\h0054, \h0308>>>>,
      <<\h1E98, <<\h0057, \h030A>>>>, <<\h1E99, <<\h0059, \h030A>>>>,
      <<\h1E9A, <<\h0041, \h02BE>>>>, <<\h1F50, <<\h03A5, \h0313>>>>,
      <<\h1F52, <<\h03A5, \h0313, \h0300>>>>, <<\h1F54, <<\h03A5, \h0313, \h0301>>>>,
      <<\h1F56, <<\h03A5, \h0313, \h0342>>>>, <<\h1F80, <<\h1F08, \h0399>>>>,
      <<\h1F81, <<\h1F09, \h0399>>>>, <<\h1F82, <<\h1F0A, \h0399>>>>,
      <<\h1F83, <<\h1F0B, \h0399>>>>, <<\h1F84, <<\h1F0C, \h0399>>>>,
      <<\h1F85, <<\h1F0D, \h0399>>>>, <<\h1F86, <<\h1F0E, \h0399>>>>,
      <<\h1F87, <<\h1F0F, \h0399>>>>, <<\h1F88, <<\h1F08, \h0399>>>>,
      <<\h1F89, <<\h1F09, \h0399>>>>, <<\h1F8A, <<\h1F0A, \h0399>>>>,
      <<\h1F8B, <<\h1F0B, \h0399>>>>, <<\h1F8C, <<\h1F0C, \h0399>>>>,
      <<\h1F8D, <<\h1F0D, \h0399>>>>, <<\h1F8E, <<\h1F0E, \h0399>>>>,
      <<\h1F8F, <<\h1F0F, \h0399>>>>, <<\h1F90, <<\h1F28, \h0399>>>>,
      <<\h1F91, <<\h1F29, \h0399>>>>, <<\h1F92, <<\h1F2A, \h0399>>>>,
      <<\h1F93, <<\h1F2B, \h0399>>>>, <<\h1F94, <<\h1F2C, \h0399>>>>,
      <<\h1F95, <<\h1F2D, \h0399>>>>, <<\h1F96, <<\h1F2E, \h0399>>>>,
      <<\h1F97, <<\h1F2F, \h0399>>>>, <<\h1F98, <<\h1F28, \h0399>>>>,
      <<\h1F99, <<\h1F29, \h0399>>>>, <<\h1F9A, <<\h1F2A, \h0399>>>>,
      <<\h1F9B, <<\h1F2B, \h0399>>>>, <<\h1F9C, <<\h1F2C, \h0399>>>>,
      <<\h1F9D, <<\h1F2D, \h0399>>>>, <<\h1F9E, <<\h1F2E, \h0399>>>>,
      <<\h1F9F, <<\h1F2F, \h0399>>>>, <<\h1FA0, <<\h1F68, \h0399>>>>,
      <<\h1FA1, <<\h1F69, \h0399>>>>, <<\h1FA2, <<\h1F6A, \h0399>>>>,
      <<\h1FA3, <<\h1F6B, \h0399>>>>, <<\h1FA4, <<\h1F6C, \h0399>>>>,
      <<\h1FA5, <<\h1F6D, \h0399>>>>, <<\h1FA6, <<\h1F6E, \h0399>>>>,
      <<\h1FA7, <<\h1F6F, \h0399>>>>, <<\h1FA8, <<\h1F68, \h0399>>>>,
      <<\h1FA9, <<\h1F69, \h0399>>>>, <<\h1FAA, <<\h1F6A, \h0399>>>>,
      <<\h1FAB, <<\h1F6B, \h0399>>>>, <<\h1FAC, <<\h1F6C, \h0399>>>>,
      <<\h1FAD, <<\h1F6D, \h0399>>>>, <<\h1FAE, <<\h1F6E, \h0399>>>>,
      <<\h1FAF, <<\h1F6F, \h0399>>>>, <<\h1FB2, <<\h1FBA, \h0399>>>>,
      <<\h1FB3, <<\h0391, \h0399>>>>, <<\h1FB4, <<\h0386, \h0399>>>>,
      <<\h1FB6, <<\h0391, \h0342>>>>, <<\h1FB7, <<\h0391, \h0342, \h0399>>>>,
      <<\h1FBC, <<\h0391, \h0399>>>>, <<\h1FC2, <<\h1FCA, \h0399>>>>,
      <<\h1FC3, <<\h0397, \h0399>>>>, <<\h1FC4, <<\h0389, \h0399>>>>,
      <<\h1FC6, <<\h0397, \h0342>>>>, <<\h1FC7, <<\h0397, \h0342, \h0399>>>>,
      <<\h1FCC, <<\h0397, \h0399>>>>, <<\h1FD2, <<\h0399, \h0308, \h0300>>>>,
      <<\h1FD3, <<\h0399, \h0308, \h0301>>>>, <<\h1FD6, <<\h0399, \h0342>>>>,
      <<\h1FD7, <<\h0399, \h0308, \h0342>>>>, <<\h1FE2, <<\h03A5, \h0308, \h0300>>>>,
      <<\h1FE3, <<\h03A5, \h0308, \h0301>>>>, <<\h1FE4, <<\h03A1, \h0313>>>>,
      <<\h1FE6, <<\h03A5, \h0342>>>>, <<\h1FE7, <<\h03A5, \h0308, \h0342>>>>,
      <<\h1FF2, <<\h1FFA, \h0399>>>>, <<\h1FF3, <<\h03A9, \h0399>>>>,
      <<\h1FF4, <<\h038F, \h0399>>>>, <<\h1FF6, <<\h03A9, \h0342>>>>,
      <<\h1FF7, <<\h03A9, \h0342, \h0399>>>>, <<\h1FFC, <<\h03A9, \h0399>>>>,
      <<\hFB00, <<\h0046, \h0046>>>>, <<\hFB01, <<\h0046, \h0049>>>>,
      <<\hFB02, <<\h0046, \h004C>>>>, <<\hFB03, <<\h0046, \h0046, \h0049>>>>,
      <<\hFB04, <<\h0046, \h0046, \h004C>>>>, <<\hFB05, <<\h0053, \h0054>>>>,
      <<\hFB06, <<\h0053, \h0054>>>>, <<\hFB13, <<\h0544, \h0546>>>>,
      <<\hFB14, <<\h0544, \h0535>>>>, <<\hFB15, <<\h0544, \h053B>>>>,
      <<\hFB16, <<\h054E, \h0546>>>>, <<\hFB17, <<\h0544, \h053D>>>>
    >>

\* str.lower() where it gives one character (for the capital sigma: the one it gives
\* when the sigma does not end a word)
LowerRuns ==
    <<
      <<\h0041, \h005A, 1, \h0061>>, <<\h00C0, \h00D6, 1, \h00E0>>,
      <<\h00D8, \h00DE, 1, \h00F8>>, <<\h0100, \h012E, 2, \h0101>>,
      <<\h0132, \h0136, 2, \h0133>>, <<\h0139, \h0147, 2, \h013A>>,
      <<\h014A, \h0176, 2, \h014B>>, <<\h0178, \h0178, 1, \h00FF>>,
      <<\h0179, \h017D, 2, \h017A>>, <<\h0181, \h0181, 1, \h0253>>,
      <<\h0182, \h0184, 2, \h0183>>, <<\h0186, \h0186, 1, \h0254>>,
      <<\h0187, \h0187, 1, \h0188>>, <<\h0189, \h018A, 1, \h0256>>,
      <<\h018B, \h018B, 1, \h018C>>, <<\h018E, \h018E, 1, \h01DD>>,
      <<\h018F, \h018F, 1, \h0259>>, <<\h0190, \h0190, 1, \h025B>>,
      <<\h0191, \h0191, 1, \h0192>>, <<\h0193, \h0193, 1, \h0260>>,
      <<\h0194, \h0194, 1, \h0263>>, <<\h0196, \h0196, 1, \h0269>>,
      <<\h0197, \h0197, 1, \h0268>>, <<\h0198, \h0198, 1, \h0199>>,
      <<\h019C, \h019C, 1, \h026F>>, <<\h019D, \h019D, 1, \h0272>>,
      <<\h019F, \h019F, 1, \h0275>>, <<\h01A0, \h01A4, 2, \h01A1>>,
      <<\h01A6, \h01A6, 1, \h0280>>, <<\h01A7, \h01A7, 1, \h01A8>>,
      <<\h01A9, \h01A9, 1, \h0283>>, <<\h01AC, \h01AC, 1, \h01AD>>,
      <<\h01AE, \h01AE, 1, \h0288>>, <<\h01AF, \h01AF, 1, \h01B0>>,
      <<\h01B1, \h01B2, 1, \h028A>>, <<\h01B3, \h01B5, 2, \h01B4>>,
      <<\h01B7, \h01B7, 1, \h0292>>, <<\h01B8, \h01B8, 1, \h01B9>>,
      <<\h01BC, \h01BC, 1, \h01BD>>, <<\h01C4, \h01C4, 1, \h01C6>>,
      <<\h01C5, \h01C5, 1, \h01C6>>, <<\h01C7, \h01C7, 1, \h01C9>>,
      <<\h01C8, \h01C8, 1, \h01C9>>, <<\h01CA, \h01CA, 1, \h01CC>>,
      <<\h01CB, \h01DB, 2, \h01CC>>, <<\h01DE, \h01EE, 2, \h01DF>>,
      <<\h01F1, \h01F1, 1, \h01F3>>, <<\h01F2, \h01F4, 2, \h01F3>>,
      <<\h01F6, \h01F6, 1, \h0195>>, <<\h01F7, \h01F7, 1, \h01BF>>,
      <<\h01F8, \h021E, 2, \h01F9>>, <<\h0220, \h0220, 1, \h019E>>,
      <<\h0222, \h0232, 2, \h0223>>, <<\h023A, \h023A, 1, \h2C65>>,
      <<\h023B, \h023B, 1, \h023C>>, <<\h023D, \h023D, 1, \h019A>>,
      <<\h023E, \h023E, 1, \h2C66>>, <<\h0241, \h0241, 1, \h0242>>,
      <<\h0243, \h0243, 1, \h0180>>, <<\h0244, \h0244, 1, \h0289>>,
      <<\h0245, \h0245, 1, \h028C>>, <<\h0246, \h024E, 2, \h0247>>,
      <<\h0370, \h0372, 2, \h0371>>, <<\h0376, \h0376, 1, \h0377>>,
      <<\h037F, \h037F, 1, \h03F3>>, <<\h0386, \h0386, 1, \h03AC>>,
      <<\h0388, \h038A, 1, \h03AD>>, <<\h038C, \h038C, 1, \h03CC>>,
      <<\h038E, \h038F, 1, \h03CD>>, <<\h0391, \h03A1, 1, \h03B1>>,
      <<\h03A3, \h03AB, 1, \h03C3>>, <<\h03CF, \h03CF, 1, \h03D7>>,
      <<\h03D8, \h03EE, 2, \h03D9>>, <<\h03F4, \h03F4, 1, \h03B8>>,
      <<\h03F7, \h03F7, 1, \h03F8>>, <<\h03F9, \h03F9, 1, \h03F2>>,
      <<\h03FA, \h03FA, 1, \h03FB>>, <<\h03FD, \h03FF, 1, \h037B>>,
      <<\h0400, \h040F, 1, \h0450>>, <<\h0410, \h042F, 1, \h0430>>,
      <<\h0460, \h0480, 2, \h0461>>, <<\h048A, \h04BE, 2, \h048B>>,
      <<\h04C0, \h04C0, 1, \h04CF>>, <<\h04C1, \h04CD, 2, \h04C2>>,
      <<\h04D0, \h052E, 2, \h04D1>>, <<\h0531, \h0556, 1, \h0561>>,
      <<\h10A0, \h10C5, 1, \h2D00>>, <<\h10C7, \h10C7, 1, \h2D27>>,
      <<\h10CD, \h10CD, 1, \h2D2D>>, <<\h13A0, \h13EF, 1, \hAB70>>,
      <<\h13F0, \h13F5, 1, \h13F8>>, <<\h1C90, \h1CBA, 1, \h10D0>>,
      <<\h1CBD, \h1CBF, 1, \h10FD>>, <<\h1E00, \h1E94, 2, \h1E01>>,
      <<\h1E9E, \h1E9E, 1, \h00DF>>, <<\h1EA0, \h1EFE, 2, \h1EA1>>,
      <<\h1F08, \h1F0F, 1, \h1F00>>, <<\h1F18, \h1F1D, 1, \h1F10>>,
      <<\h1F28, \h1F2F, 1, \h1F20>>, <<\h1F38, \h1F3F, 1, \h1F30>>,
      <<\h1F48, \h1F4D, 1, \h1F40>>, <<\h1F59, \h1F5F, 2, \h1F51>>,
      <<\h1F68, \h1F6F, 1, \h1F60>>, <<\h1F88, \h1F8F, 1, \h1F80>>,
      <<\h1F98, \h1F9F, 1, \h1F90>>, <<\h1FA8, \h1FAF, 1, \h1FA0>>,
      <<\h1FB8, \h1FB9, 1, \h1FB0>>, <<\h1FBA, \h1FBB, 1, \h1F70>>,
      <<\h1FBC, \h1FBC, 1, \h1FB3>>, <<\h1FC8, \h1FCB, 1, \h1F72>>,
      <<\h1FCC, \h1FCC, 1, \h1FC3>>, <<\h1FD8, \h1FD9, 1, \h1FD0>>,
      <<\h1FDA, \h1FDB, 1, \h1F76>>, <<\h1FE8, \h1FE9, 1, \h1FE0>>,
      <<\h1FEA, \h1FEB, 1, \h1F7A>>, <<\h1FEC, \h1FEC, 1, \h1FE5>>,
      <<\h1FF8, \h1FF9, 1, \h1F78>>, <<\h1FFA, \h1FFB, 1, \h1F7C>>,
      <<\h1FFC, \h1FFC, 1, \h1FF3>>, <<\h2126, \h2126, 1, \h03C9>>,
      <<\h212A, \h212A, 1, \h006B>>, <<\h212B, \h212B, 1, \h00E5>>,
      <<\h2132, \h2132, 1, \h214E>>, <<\h2160, \h216F, 1, \h2170>>,
      <<\h2183, \h2183, 1, \h2184>>, <<\h24B6, \h24CF, 1, \h24D0>>,
      <<\h2C00, \h2C2F, 1, \h2C30>>, <<\h2C60, \h2C60, 1, \h2C61>>,
      <<\h2C62, \h2C62, 1, \h026B>>, <<\h2C63, \h2C63, 1, \h1D7D>>,
      <<\h2C64, \h2C64, 1, \h027D>>, <<\h2C67, \h2C6B, 2, \h2C68>>,
      <<\h2C6D, \h2C6D, 1, \h0251>>, <<\h2C6E, \h2C6E, 1, \h0271>>,
      <<\h2C6F, \h2C6F, 1, \h0250>>, <<\h2C70, \h2C70, 1, \h0252>>,
      <<\h2C72, \h2C72, 1, \h2C73>>, <<\h2C75, \h2C75, 1, \h2C76>>,
      <<\h2C7E, \h2C7F, 1, \h023F>>, <<\h2C80, \h2CE2, 2, \h2C81>>,
      <<\h2CEB, \h2CED, 2, \h2CEC>>, <<\h2CF2, \h2CF2, 1, \h2CF3>>,
      <<\hA640, \hA66C, 2, \hA641>>, <<\hA680, \hA69A, 2, \hA681>>,
      <<\hA722, \hA72E, 2, \hA723>>, <<\hA732, \hA76E, 2, \hA733>>,
      <<\hA779, \hA77B, 2, \hA77A>>, <<\hA77D, \hA77D, 1, \h1D79>>,
      <<\hA77E, \hA786, 2, \hA77F>>, <<\hA78B, \hA78B, 1, \hA78C>>,
      <<\hA78D, \hA78D, 1, \h0265>>, <<\hA790, \hA792, 2, \hA791>>,
      <<\hA796, \hA7A8, 2, \hA797>>, <<\hA7AA, \hA7AA, 1, \h0266>>,
      <<\hA7AB, \hA7AB, 1, \h025C>>, <<\hA7AC, \hA7AC, 1, \h0261>>,
      <<\hA7AD, \hA7AD, 1, \h026C>>, <<\hA7AE, \hA7AE, 1, \h026A>>,
      <<\hA7B0, \hA7B0, 1, \h029E>>, <<\hA7B1, \hA7B1, 1, \h0287>>,
      <<\hA7B2, \hA7B2, 1, \h029D>>, <<\hA7B3, \hA7B3, 1, \hAB53>>,
      <<\hA7B4, \hA7C2, 2, \hA7B5>>, <<\hA7C4, \hA7C4, 1, \hA794>>,
      <<\hA7C5, \hA7C5, 1, \h0282>>, <<\hA7C6, \hA7C6, 1, \h1D8E>>,
      <<\hA7C7, \hA7C9, 2, \hA7C8>>, <<\hA7D0, \hA7D0, 1, \hA7D1>>,
      <<\hA7D6, \hA7D8, 2, \hA7D7>>, <<\hA7F5, \hA7F5, 1, \hA7F6>>,
      <<\hFF21, \hFF3A, 1, \hFF41>>, <<\h10400, \h10427, 1, \h10428>>,
      <<\h104B0, \h104D3, 1, \h104D8>>, <<\h10570, \h10594, 2, \h10597>>,
      <<\h10571, \h10579, 2, \h10598>>, <<\h1057D, \h10589, 2, \h105A4>>,
      <<\h1058D, \h10591, 2, \h105B4>>, <<\h10595, \h10595, 1, \h105BC>>,
      <<\h10C80, \h10CB2, 1, \h10CC0>>, <<\h118A0, \h118BF, 1, \h118C0>>,
      <<\h16E40, \h16E5F, 1, \h16E60>>, <<\h1E900, \h1E921, 1, \h1E922>>
    >>

\* str.lower() where it gives more than one character
LowerSpecial ==
    <<
      <<\h0130, <<\h0069, \h0307>>>>
    >>

\* a case mapping as a function: each character that it changes, to the string it becomes
CaseMap(runs, special) ==
    LET run(i)   == {m \in runs[i][1]..runs[i][2] : (m - runs[i][1]) % runs[i][3] = 0}
        to(i, n) == runs[i][4] + (n - runs[i][1])
        pairs    == UNION {{<<CodePoint(n), <<CodePoint(to(i, n))>>>> : n \in run(i)} :
                           i \in 1..Len(runs)}
                    \cup
                    {<<CodePoint(special[i][1]),
                       [k \in 1..Len(special[i][2]) |-> CodePoint(special[i][2][k])]>> :
                     i \in 1..Len(special)}
    IN  [c \in {p[1] : p \in pairs} |-> (CHOOSE p \in pairs : p[1] = c)[2]]

UpperMap == CaseMap(UpperRuns, UpperSpecial)

LowerMap == CaseMap(LowerRuns, LowerSpecial)

\* str.upper() of one character: a string, of more than one character for some
UpperChar(c) == IF c \in DOMAIN UpperMap THEN UpperMap[c] ELSE <<c>>

\* str.lower() of one character taken alone: a string, of two characters for U+0130
LowerChar(c) == IF c \in DOMAIN LowerMap THEN LowerMap[c] ELSE <<c>>

\* the capital sigma at i ends a word, class being the case class of each character:
\* looking through the case-ignorable characters, a cased character comes before it and
\* none comes after it
FinalSigma(class, i) ==
    /\ \E j \in 1..(i - 1) :
          /\ class[j] = "cased"
          /\ \A k \in (j + 1)..(i - 1) : class[k] = "ignorable"
    /\ \A j \in (i + 1)..Len(class) :
          (class[j] # "ignorable" /\ \A k \in (i + 1)..(j - 1) : class[k] = "ignorable")
          => class[j] # "cased"

\* s.lower() from position i on: a capital sigma that ends a word becomes U+03C2
RECURSIVE LowerFrom(_, _, _)
LowerFrom(s, class, i) ==
    IF i > Len(s) THEN << >>
    ELSE (IF s[i] = CodePoint(\h03A3) /\ FinalSigma(class, i)
          THEN <<CodePoint(\h03C2)>>
          ELSE LowerChar(s[i]))
         \o LowerFrom(s, class, i + 1)

\* str.lower(); the rule of the final sigma goes by the case class of each character
lower(s) ==
    LET CaseClass(c) == IF c \in CaseIgnorableChars THEN "ignorable"
                        ELSE IF c \in CasedChars THEN "cased"
                        ELSE "other"
    IN  LowerFrom(s, [j \in 1..Len(s) |-> CaseClass(s[j])], 1)

RECURSIVE upper(_)
upper(s) == IF s = << >> THEN << >> ELSE UpperChar(Head(s)) \o upper(Tail(s))

\* str.strip(): drop the leading and the trailing whitespace
strip(s) ==
    IF \A i \in 1..Len(s) : s[i] \in SpaceChars
    THEN << >>
    ELSE LET first == CHOOSE i \in 1..Len(s) :
                          /\ s[i] \notin SpaceChars
                          /\ \A j \in 1..(i - 1) : s[j] \in SpaceChars
             last  == CHOOSE i \in 1..Len(s) :
                          /\ s[i] \notin SpaceChars
                          /\ \A j \in (i + 1)..Len(s) : s[j] \in SpaceChars
         IN  SubSeq(s, first, last)

\* k in s
Contains(s, k) ==
    \E i \in 0..(Len(s) - Len(k)) : SubSeq(s, i + 1, i + Len(k)) = k

\* x in (a, b, c)
InList(x, list) == \E i \in 1..Len(list) : list[i] = x

-----------------------------------------------------------------------------
(* agents/classifier_agent.py: labels and the heuristic *)

POSITIVE_FEEDBACK == "POSITIVE_FEEDBACK"

NEGATIVE_FEEDBACK == "NEGATIVE_FEEDBACK"

QUERY == "QUERY"

Labels == {POSITIVE_FEEDBACK, NEGATIVE_FEEDBACK, QUERY}

\* a function returning Optional[str] of a label returns this for None
NoLabel == "None"

\* the characters of a label
LabelText(lbl) ==
    CASE lbl = POSITIVE_FEEDBACK ->
           <<"P", "O", "S", "I", "T", "I", "V", "E", "_", "F", "E", "E", "D", "B", "A", "C", "K">>
      [] lbl = NEGATIVE_FEEDBACK ->
           <<"N", "E", "G", "A", "T", "I", "V", "E", "_", "F", "E", "E", "D", "B", "A", "C", "K">>
      [] lbl = QUERY -> <<"Q", "U", "E", "R", "Y">>

_contains_any(text, keywords) ==
    LET text_lower == lower(text)
    IN  \E i \in 1..Len(keywords) : Contains(text_lower, keywords[i])

question_words ==
    <<
       <<"h", "o", "w">>, <<"w", "h", "e", "n">>, <<"w", "h", "a", "t">>,
       <<"w", "h", "e", "r", "e">>, <<"w", "h", "y">>, <<"s", "t", "a", "t", "u", "s">>,
       <<"t", "i", "c", "k", "e", "t">>, <<"h", "e", "l", "p">>,
       <<"c", "a", "n", " ", "y", "o", "u">>, <<"c", "o", "u", "l", "d", " ", "y", "o", "u">>
    >>

negative_words ==
    <<
       <<"n", "o", "t", " ", "h", "a", "p", "p", "y">>, <<"u", "n", "h", "a", "p", "p", "y">>,
       <<"a", "n", "g", "r", "y">>, <<"b", "a", "d">>, <<"w", "o", "r", "s", "t">>,
       <<"t", "e", "r", "r", "i", "b", "l", "e">>, <<"h", "o", "r", "r", "i", "b", "l", "e">>,
       <<"c", "o", "m", "p", "l", "a", "i", "n">>,
       <<"c", "o", "m", "p", "l", "a", "i", "n", "t">>, <<"i", "s", "s", "u", "e">>,
       <<"p", "r", "o", "b", "l", "e", "m">>,
       <<"f", "r", "u", "s", "t", "r", "a", "t", "e", "d">>,
       <<"d", "i", "s", "a", "p", "p", "o", "i", "n", "t", "e", "d">>,
       <<"d", "i", "d", " ", "n", "o", "t", " ", "w", "o", "r", "k">>,
       <<"d", "i", "d", "n", "'", "t", " ", "w", "o", "r", "k">>,
       <<"d", "i", "d", "n", "t", " ", "w", "o", "r", "k">>,
       <<"m", "o", "n", "e", "y", " ", "d", "e", "d", "u", "c", "t", "e", "d">>,
       <<"d", "e", "b", "i", "t", "e", "d", " ", "b", "u", "t">>
    >>

positive_words ==
    <<
       <<"t", "h", "a", "n", "k", " ", "y", "o", "u">>, <<"t", "h", "a", "n", "k", "s">>,
       <<"g", "r", "e", "a", "t">>, <<"a", "w", "e", "s", "o", "m", "e">>,
       <<"g", "o", "o", "d", " ", "s", "e", "r", "v", "i", "c", "e">>,
       <<"w", "e", "l", "l", " ", "d", "o", "n", "e">>, <<"h", "a", "p", "p", "y">>,
       <<"s", "a", "t", "i", "s", "f", "i", "e", "d">>,
       <<"l", "o", "v", "e", " ", "t", "h", "e", " ", "s", "e", "r", "v", "i", "c", "e">>
    >>

\* a plausible slip: the sentiment checks ahead of the question check
heuristic_classify_sentiment_first(message) ==
    LET msg == strip(message)
    IN  IF _contains_any(msg, negative_words) THEN NEGATIVE_FEEDBACK
        ELSE IF _contains_any(msg, positive_words) THEN POSITIVE_FEEDBACK
        ELSE QUERY

heuristic_classify(message) ==
    LET msg == strip(message)
    IN  IF Contains(msg, <<"?">>) \/ _contains_any(msg, question_words) THEN QUERY
        ELSE IF _contains_any(msg, negative_words) THEN NEGATIVE_FEEDBACK
        ELSE IF _contains_any(msg, positive_words) THEN POSITIVE_FEEDBACK
        ELSE QUERY

\* agents/classifier_agent_wo_llm.py: the same rules, as that module writes them
wo_llm_classify_message(message) ==
    LET msg == strip(message)
    IN  IF Contains(msg, <<"?">>) \/ _contains_any(msg, question_words) THEN QUERY
        ELSE IF _contains_any(msg, negative_words) THEN NEGATIVE_FEEDBACK
        ELSE IF _contains_any(msg, positive_words) THEN POSITIVE_FEEDBACK
        ELSE QUERY

-----------------------------------------------------------------------------
(* agents/classifier_agent.py: the remote path *)

\* retries = 2
retries == 2

\* time.sleep(0.5 * attempt), in milliseconds per attempt number
BackoffMs == 500

\* what one openai.ChatCompletion.create call can do
ExceptionKinds == {"raise", "timeout"}

RemoteTexts ==
    <<
       <<"Q", "U", "E", "R", "Y">>,
       <<" ", "p", "o", "s", "i", "t", "i", "v", "e", "_", "f", "e", "e", "d", "b", "a", "c", "k", "\n">>,
       <<"N", "e", "g", "a", "t", "i", "v", "e", ".">>, <<"S", "T", "A", "T", "U", "S", "!">>,
       <<"I", " ", "a", "m", " ", "h", "a", "p", "p", "y">>,
       <<"n", "o", "t", " ", "g", "o", "o", "d">>, <<"n", "o", "t", " ", "s", "u", "r", "e">>,
       <<"w", "h", "a", "t", "?">>, <<"b", "a", "n", "a", "n", "a">>, <<" ">>,
       <<"_", "Q", "U", "E", "R", "Y", "_">>, <<"i", "ß", "u", "e">>,
       <<"p", "o", "s", "U+0131", "t", "U+0131", "v", "e">>
    >>

\* an attempt raises, times out, answers with no choices, or answers with a text
AttemptOutcomes ==
    {[kind |-> k, text |-> << >>] : k \in ExceptionKinds \cup {"no_choices"}}
    \cup {[kind |-> "content", text |-> RemoteTexts[i]] : i \in 1..Len(RemoteTexts)}

\* resp["choices"][0]["message"]["content"].strip(), "" when there is no choice
AttemptContent(o) == IF o.kind = "content" THEN strip(o.text) ELSE << >>

\* the attempt ends the loop only with a non-empty content
AttemptFails(o) == o.kind \in ExceptionKinds \/ AttemptContent(o) = << >>

\* the behaviours of the remote over one call: a second outcome only after a failed first
RemoteBehaviours ==
    {<<o>> : o \in {x \in AttemptOutcomes : ~AttemptFails(x)}}
    \cup {<<o1, o2>> : o1 \in {x \in AttemptOutcomes : AttemptFails(x)}, o2 \in AttemptOutcomes}

\* the environment of the process: the openai package and OPENAI_API_KEY
Environments == [installed : BOOLEAN, api_key : BOOLEAN]

_safe_import_openai(env) == env.installed

\* a plausible slip: no try/except around the remote call
RECURSIVE RetryLoopNoExcept(_, _, _)
RetryLoopNoExcept(attempt, outcomes, sleeps) ==
    IF attempt > retries
    THEN [raw |-> None, attempts |-> retries, sleeps |-> sleeps, exc |-> FALSE]
    ELSE LET o == outcomes[attempt]
             content == AttemptContent(o)
         IN  IF o.kind \in ExceptionKinds
             THEN [raw |-> None, attempts |-> attempt, sleeps |-> sleeps, exc |-> TRUE]
             ELSE IF content # << >>
             THEN [raw |-> Some(content), attempts |-> attempt, sleeps |-> sleeps,
                   exc |-> FALSE]
             ELSE RetryLoopNoExcept(attempt + 1, outcomes, sleeps)

\* for attempt in range(1, retries + 1): try ... except Exception ...
RECURSIVE RetryLoop(_, _, _)
RetryLoop(attempt, outcomes, sleeps) ==
    IF attempt > retries
    THEN [raw |-> None, attempts |-> retries, sleeps |-> sleeps, exc |-> FALSE]
    ELSE LET o == outcomes[attempt]
             content == AttemptContent(o)
         IN  IF o.kind \in ExceptionKinds
             THEN RetryLoop(attempt + 1, outcomes, Append(sleeps, BackoffMs * attempt))
             ELSE IF content # << >>
             THEN [raw |-> Some(content), attempts |-> attempt, sleeps |-> sleeps,
                   exc |-> FALSE]
             ELSE RetryLoop(attempt + 1, outcomes, sleeps)

\* raw text of the remote's answer or None; attempts made, sleeps taken, exception escaped
_call_openai_chat(message, env, outcomes) ==
    IF ~_safe_import_openai(env)
    THEN [raw |-> None, attempts |-> 0, sleeps |-> << >>, exc |-> FALSE]
    ELSE IF ~env.api_key
    THEN [raw |-> None, attempts |-> 0, sleeps |-> << >>, exc |-> FALSE]
    ELSE RetryLoop(1, outcomes, << >>)

norm_positive_exact ==
    <<
       <<"P", "O", "S", "I", "T", "I", "V", "E", "F", "E", "E", "D", "B", "A", "C", "K">>,
       <<"P", "O", "S", "I", "T", "I", "V", "E", "_", "F", "E", "E", "D", "B", "A", "C", "K">>,
       <<"P", "O", "S", "I", "T", "I", "V", "E">>, <<"T", "H", "A", "N", "K", "S">>
    >>

norm_negative_exact ==
    <<
       <<"N", "E", "G", "A", "T", "I", "V", "E", "F", "E", "E", "D", "B", "A", "C", "K">>,
       <<"N", "E", "G", "A", "T", "I", "V", "E", "_", "F", "E", "E", "D", "B", "A", "C", "K">>,
       <<"N", "E", "G", "A", "T", "I", "V", "E">>,
       <<"C", "O", "M", "P", "L", "A", "I", "N", "T">>,
       <<"C", "O", "M", "P", "L", "A", "I", "N">>
    >>

norm_query_exact ==
    <<
       <<"Q", "U", "E", "R", "Y">>, <<"Q", "U", "E", "S", "T", "I", "O", "N">>,
       <<"S", "T", "A", "T", "U", "S">>, <<"T", "I", "C", "K", "E", "T">>
    >>

norm_positive_keys ==
    <<
       <<"t", "h", "a", "n", "k">>, <<"t", "h", "a", "n", "k", "s">>,
       <<"g", "r", "e", "a", "t">>, <<"g", "o", "o", "d">>, <<"h", "a", "p", "p", "y">>,
       <<"s", "a", "t", "i", "s", "f", "i", "e", "d">>
    >>

norm_negative_keys ==
    <<
       <<"n", "o", "t">>, <<"u", "n", "h", "a", "p", "p", "y">>, <<"a", "n", "g", "r", "y">>,
       <<"c", "o", "m", "p", "l", "a", "i", "n">>, <<"d", "e", "b", "i", "t">>,
       <<"i", "s", "s", "u", "e">>, <<"p", "r", "o", "b", "l", "e", "m">>,
       <<"f", "r", "u", "s", "t", "r", "a", "t">>
    >>

norm_query_keys ==
    <<
       <<"?">>, <<"h", "o", "w">>, <<"w", "h", "a", "t">>, <<"w", "h", "e", "n">>,
       <<"s", "t", "a", "t", "u", "s">>, <<"t", "i", "c", "k", "e", "t">>,
       <<"h", "e", "l", "p">>
    >>

\* re.sub(r"[^A-Z_]", "", t)
KeepUpperAndUnderscore(t) ==
    SelectSeq(t, LAMBDA c : c = "_" \/ \E i \in 1..26 : UpperChars[i] = c)

\* any(k in t_lower for k in keys)
AnyKeyIn(t_lower, keys) == \E i \in 1..Len(keys) : Contains(t_lower, keys[i])

\* a plausible slip: the negative keywords looked for ahead of the positive ones
_normalize_label_negative_first(text) ==
    IF text = << >> THEN NoLabel
    ELSE
    LET t       == upper(strip(text))
        t_clean == KeepUpperAndUnderscore(t)
        t_lower == lower(t)
    IN  IF \E lbl \in Labels : t = LabelText(lbl)
        THEN CHOOSE lbl \in Labels : t = LabelText(lbl)
        ELSE IF InList(t_clean, norm_positive_exact) THEN POSITIVE_FEEDBACK
        ELSE IF InList(t_clean, norm_negative_exact) THEN NEGATIVE_FEEDBACK
        ELSE IF InList(t_clean, norm_query_exact) THEN QUERY
        ELSE IF AnyKeyIn(t_lower, norm_negative_keys) THEN NEGATIVE_FEEDBACK
        ELSE IF AnyKeyIn(t_lower, norm_positive_keys) THEN POSITIVE_FEEDBACK
        ELSE IF AnyKeyIn(t_lower, norm_query_keys) THEN QUERY
        ELSE NoLabel

\* the label the remote's text maps to, NoLabel when it maps to none
_normalize_label(text) ==
    IF text = << >> THEN NoLabel
    ELSE
    LET t       == upper(strip(text))
        t_clean == KeepUpperAndUnderscore(t)
        t_lower == lower(t)
    IN  IF \E lbl \in Labels : t = LabelText(lbl)
        THEN CHOOSE lbl \in Labels : t = LabelText(lbl)
        ELSE IF InList(t_clean, norm_positive_exact) THEN POSITIVE_FEEDBACK
        ELSE IF InList(t_clean, norm_negative_exact) THEN NEGATIVE_FEEDBACK
        ELSE IF InList(t_clean, norm_query_exact) THEN QUERY
        ELSE IF AnyKeyIn(t_lower, norm_positive_keys) THEN POSITIVE_FEEDBACK
        ELSE IF AnyKeyIn(t_lower, norm_negative_keys) THEN NEGATIVE_FEEDBACK
        ELSE IF AnyKeyIn(t_lower, norm_query_keys) THEN QUERY
        ELSE NoLabel

\* a plausible slip: the remote consulted whatever use_llm says
ClassifyTrimmed_ignores_use_llm(message, use_llm, env, outcomes) ==
    LET call  == _call_openai_chat(message, env, outcomes)
        label == IF call.raw # None THEN _normalize_label(call.raw[1]) ELSE NoLabel
    IN  IF call.raw # None /\ call.raw[1] # << >> /\ label # NoLabel
        THEN [label |-> label, exc |-> call.exc, path |-> "llm",
              raw |-> call.raw, attempts |-> call.attempts, sleeps |-> call.sleeps]
        ELSE [label |-> heuristic_classify(message), exc |-> call.exc, path |-> "fallback",
              raw |-> call.raw, attempts |-> call.attempts, sleeps |-> call.sleeps]

\* a plausible slip: an answer that maps to no label is answered with the default label
ClassifyTrimmed_default_on_unmapped(message, use_llm, env, outcomes) ==
    IF ~use_llm
    THEN [label |-> heuristic_classify(message), exc |-> FALSE, path |-> "heuristic_only",
          raw |-> None, attempts |-> 0, sleeps |-> << >>]
    ELSE
    LET call  == _call_openai_chat(message, env, outcomes)
        label == IF call.raw # None THEN _normalize_label(call.raw[1]) ELSE NoLabel
    IN  IF call.raw # None /\ call.raw[1] # << >>
        THEN [label |-> IF label # NoLabel THEN label ELSE QUERY, exc |-> call.exc,
              path |-> "llm",
              raw |-> call.raw, attempts |-> call.attempts, sleeps |-> call.sleeps]
        ELSE [label |-> heuristic_classify(message), exc |-> call.exc, path |-> "fallback",
              raw |-> call.raw, attempts |-> call.attempts, sleeps |-> call.sleeps]

\* what classify_message does with a message it has trimmed and found non-empty
ClassifyTrimmed(message, use_llm, env, outcomes) ==
    IF ~use_llm
    THEN [label |-> heuristic_classify(message), exc |-> FALSE, path |-> "heuristic_only",
          raw |-> None, attempts |-> 0, sleeps |-> << >>]
    ELSE
    LET call  == _call_openai_chat(message, env, outcomes)
        label == IF call.raw # None THEN _normalize_label(call.raw[1]) ELSE NoLabel
    IN  IF call.exc
        THEN [label |-> NoLabel, exc |-> TRUE, path |-> "raised",
              raw |-> call.raw, attempts |-> call.attempts, sleeps |-> call.sleeps]
        ELSE IF call.raw # None /\ call.raw[1] # << >> /\ label # NoLabel
        THEN [label |-> label, exc |-> FALSE, path |-> "llm",
              raw |-> call.raw, attempts |-> call.attempts, sleeps |-> call.sleeps]
        ELSE [label |-> heuristic_classify(message), exc |-> FALSE, path |-> "fallback",
              raw |-> call.raw, attempts |-> call.attempts, sleeps |-> call.sleeps]

\* a plausible slip: no early return for the message that is empty once trimmed
classify_message_no_empty_check(message, use_llm, env, outcomes) ==
    ClassifyTrimmed(strip(message), use_llm, env, outcomes)

\* the label returned (exc: an exception left the call instead), with the path taken
classify_message(message, use_llm, env, outcomes) ==
    LET trimmed == strip(message)
    IN  IF trimmed = << >>
        THEN [label |-> QUERY, exc |-> FALSE, path |-> "empty",
              raw |-> None, attempts |-> 0, sleeps |-> << >>]
        ELSE ClassifyTrimmed(trimmed, use_llm, env, outcomes)

-----------------------------------------------------------------------------
(* the reply templates of the handlers and of the orchestrator *)

ValuedCustomer ==
    <<"V", "a", "l", "u", "e", "d", " ", "C", "u", "s", "t", "o", "m", "e", "r">>

ThankYouPrefix ==
    <<"T", "h", "a", "n", "k", " ", "y", "o", "u", " ", "f", "o", "r", " ", "y", "o", "u",
      "r", " ", "k", "i", "n", "d", " ", "f", "e", "e", "d", "b", "a", "c", "k", ",", " ">>

ThankYouSuffix ==
    <<"!", " ", "W", "e", " ", "r", "e", "a", "l", "l", "y", " ", "a", "p", "p", "r", "e",
      "c", "i", "a", "t", "e", " ", "y", "o", "u", " ", "t", "a", "k", "i", "n", "g", " ",
      "t", "h", "e", " ", "t", "i", "m", "e", " ", "t", "o", " ", "s", "h", "a", "r", "e",
      " ", "t", "h", "i", "s", " ", "w", "i", "t", "h", " ", "u", "s", ".">>

SorryPrefix ==
    <<"W", "e", "'", "r", "e", " ", "r", "e", "a", "l", "l", "y", " ", "s", "o", "r", "r",
      "y", " ", "t", "o", " ", "h", "e", "a", "r", " ", "a", "b", "o", "u", "t", " ", "y",
      "o", "u", "r", " ", "e", "x", "p", "e", "r", "i", "e", "n", "c", "e", ",", " ">>

SorryMiddle ==
    <<".", " ", "I", "'", "v", "e", " ", "c", "r", "e", "a", "t", "e", "d", " ", "a", " ",
      "s", "u", "p", "p", "o", "r", "t", " ", "t", "i", "c", "k", "e", "t", " ", "f", "o",
      "r", " ", "y", "o", "u", ":", " ", "#">>

SorrySuffix ==
    <<".", " ", "O", "u", "r", " ", "t", "e", "a", "m", " ", "w", "i", "l", "l", " ", "r",
      "e", "v", "i", "e", "w", " ", "t", "h", "i", "s", " ", "a", "n", "d", " ", "g", "e",
      "t", " ", "b", "a", "c", "k", " ", "t", "o", " ", "y", "o", "u", " ", "a", "s", " ",
      "s", "o", "o", "n", " ", "a", "s", " ", "p", "o", "s", "s", "i", "b", "l", "e", ".">>

GenericReply ==
    <<"T", "h", "a", "n", "k", " ", "y", "o", "u", " ", "f", "o", "r", " ", "y", "o", "u",
      "r", " ", "m", "e", "s", "s", "a", "g", "e", ".">>

NoTicketNumberReply ==
    <<"I", " ", "c", "o", "u", "l", "d", "n", "'", "t", " ", "f", "i", "n", "d", " ", "a",
      " ", "t", "i", "c", "k", "e", "t", " ", "n", "u", "m", "b", "e", "r", " ", "i", "n",
      " ", "y", "o", "u", "r", " ", "m", "e", "s", "s", "a", "g", "e", ".", " ", "P", "l",
      "e", "a", "s", "e", " ", "s", "h", "a", "r", "e", " ", "y", "o", "u", "r", " ", "6",
      "-", "d", "i", "g", "i", "t", " ", "t", "i", "c", "k", "e", "t", " ", "I", "D", " ",
      "s", "o", " ", "I", " ", "c", "a", "n", " ", "c", "h", "e", "c", "k", " ", "t", "h",
      "e", " ", "s", "t", "a", "t", "u", "s", " ", "f", "o", "r", " ", "y", "o", "u", ".">>

NotFoundPrefix ==
    <<"I", " ", "c", "o", "u", "l", "d", "n", "'", "t", " ", "f", "i", "n", "d", " ", "a",
      "n", "y", " ", "t", "i", "c", "k", "e", "t", " ", "w", "i", "t", "h", " ", "I", "D",
      " ", "#">>

NotFoundSuffix ==
    <<".", " ", "P", "l", "e", "a", "s", "e", " ", "v", "e", "r", "i", "f", "y", " ", "t",
      "h", "e", " ", "n", "u", "m", "b", "e", "r", " ", "a", "n", "d", " ", "t", "r", "y",
      " ", "a", "g", "a", "i", "n", ".">>

FoundPrefix ==
    <<"Y", "o", "u", "r", " ", "t", "i", "c", "k", "e", "t", " ", "#">>

FoundMiddle ==
    <<" ", "i", "s", " ", "c", "u", "r", "r", "e", "n", "t", "l", "y", " ", "m", "a", "r",
      "k", "e", "d", " ", "a", "s", ":", " ">>

UnknownReply ==
    <<"I", "'", "m", " ", "n", "o", "t", " ", "s", "u", "r", "e", " ", "h", "o", "w", " ",
      "t", "o", " ", "h", "a", "n", "d", "l", "e", " ", "t", "h", "i", "s", " ", "m", "e",
      "s", "s", "a", "g", "e", ".">>

-----------------------------------------------------------------------------
(* db/db_utils.py: the support_tickets table, a sequence of rows in insertion order *)

StatusOpen ==
    <<"O", "p", "e", "n">>

\* support_tickets.ticket_id is declared TEXT PRIMARY KEY: the insert of a second row
\* with a ticket_id already in the table is refused
PrimaryKeyRefuses(table, ticket_id) ==
    \E i \in 1..Len(table) : table[i].ticket_id = ticket_id

\* a plausible slip: customer_name and message in each other's place in the VALUES tuple
NewRow_swapped_columns(ticket_id, message, customer_name, correlation_id, now) ==
    [ticket_id |-> ticket_id, customer_name |-> Some(message),
     message |-> IF customer_name = None THEN << >> ELSE customer_name[1],
     status |-> StatusOpen, created_at |-> now, updated_at |-> now,
     correlation_id |-> correlation_id]

NewRow(ticket_id, message, customer_name, correlation_id, now) ==
    [ticket_id |-> ticket_id, customer_name |-> customer_name, message |-> message,
     status |-> StatusOpen, created_at |-> now, updated_at |-> now,
     correlation_id |-> correlation_id]

\* a plausible slip: INSERT OR REPLACE instead of INSERT
create_ticket_or_replace(table, ticket_id, message, customer_name, correlation_id, now) ==
    [table |-> SelectSeq(table, LAMBDA row : row.ticket_id # ticket_id)
                 \o <<NewRow(ticket_id, message, customer_name, correlation_id, now)>>,
     exc |-> "None"]

\* the table after the INSERT, or the table as it was and the exception sqlite3 raises
create_ticket(table, ticket_id, message, customer_name, correlation_id, now) ==
    IF PrimaryKeyRefuses(table, ticket_id)
    THEN [table |-> table, exc |-> "IntegrityError"]
    ELSE [table |-> Append(table,
                           NewRow(ticket_id, message, customer_name, correlation_id, now)),
          exc |-> "None"]

\* SELECT ticket_id, customer_name, message, status, created_at, updated_at ... fetchone()
get_ticket(table, ticket_id) ==
    IF \E i \in 1..Len(table) : table[i].ticket_id = ticket_id
    THEN LET i == CHOOSE i \in 1..Len(table) :
                      /\ table[i].ticket_id = ticket_id
                      /\ \A j \in 1..(i - 1) : table[j].ticket_id # ticket_id
         IN  Some([ticket_id |-> table[i].ticket_id,
                   customer_name |-> table[i].customer_name,
                   message |-> table[i].message,
                   status |-> table[i].status,
                   created_at |-> table[i].created_at,
                   updated_at |-> table[i].updated_at])
    ELSE None

\* a plausible slip: SET updated_at = ? alone, the status left as it was
update_ticket_status_keeps_status(table, ticket_id, new_status, now) ==
    [table |-> [i \in 1..Len(table) |->
                   IF table[i].ticket_id = ticket_id
                   THEN [table[i] EXCEPT !.updated_at = now]
                   ELSE table[i]],
     exc |-> "None"]

\* a plausible slip: created_at refreshed together with updated_at
update_ticket_status_resets_created(table, ticket_id, new_status, now) ==
    [table |-> [i \in 1..Len(table) |->
                   IF table[i].ticket_id = ticket_id
                   THEN [table[i] EXCEPT !.status = new_status, !.updated_at = now,
                                         !.created_at = now]
                   ELSE table[i]],
     exc |-> "None"]

\* UPDATE support_tickets SET status = ?, updated_at = ? WHERE ticket_id = ?
update_ticket_status(table, ticket_id, new_status, now) ==
    [table |-> [i \in 1..Len(table) |->
                   IF table[i].ticket_id = ticket_id
                   THEN [table[i] EXCEPT !.status = new_status, !.updated_at = now]
                   ELSE table[i]],
     exc |-> "None"]

\* the calls made to the store, as their callers see them: a create_ticket for an id
\* no ticket was created with asks for status "Open"
HistCreate(h, ticket_id) ==
    IF \E e \in h : e.ticket_id = ticket_id THEN h
    ELSE h \cup {[ticket_id |-> ticket_id, status |-> StatusOpen]}

\* an update_ticket_status for the id of a created ticket asks for new_status
HistUpdate(h, ticket_id, new_status) ==
    {IF e.ticket_id = ticket_id THEN [e EXCEPT !.status = new_status] ELSE e : e \in h}

-----------------------------------------------------------------------------
(* agents/feedback_agent.py *)

\* random.randint(0, 999999)
IdMax == 999999

DigitChars == <<"0", "1", "2", "3", "4", "5", "6", "7", "8", "9">>

RECURSIVE DecimalDigits(_)
DecimalDigits(n) ==
    IF n < 10 THEN <<DigitChars[n + 1]>>
    ELSE Append(DecimalDigits(n \div 10), DigitChars[(n % 10) + 1])

RECURSIVE ZeroPad(_, _)
ZeroPad(s, width) == IF Len(s) >= width THEN s ELSE ZeroPad(<<"0">> \o s, width)

\* a plausible slip: f"{n}" instead of f"{n:06d}"
Format06d_unpadded(n) == DecimalDigits(n)

\* f"{n:06d}"
Format06d(n) == ZeroPad(DecimalDigits(n), 6)

\* one turn of the while loop: the candidate when get_ticket finds no row for it, else None
GenerateIteration(table, n) ==
    LET ticket_id == Format06d(n)
        existing  == get_ticket(table, ticket_id)
    IN  IF existing = None THEN Some(ticket_id) ELSE None

\* customer_name or "Valued Customer"
CustomerDisplay(customer_name) ==
    IF customer_name # None /\ customer_name[1] # << >>
    THEN customer_name[1]
    ELSE ValuedCustomer

\* a plausible slip: the positive branch reports a ticket id
FeedbackPositive_reports_ticket(customer_name, sentiment) ==
    [reply |-> ThankYouPrefix \o CustomerDisplay(customer_name) \o ThankYouSuffix,
     ticket_id |-> Some(Format06d(0)), sentiment |-> sentiment]

\* handle_feedback, sentiment == POSITIVE_FEEDBACK
FeedbackPositive(customer_name, sentiment) ==
    [reply |-> ThankYouPrefix \o CustomerDisplay(customer_name) \o ThankYouSuffix,
     ticket_id |-> None, sentiment |-> sentiment]

\* a plausible slip: the negative branch returns no ticket id
FeedbackNegative_no_ticket_id(customer_name, sentiment, ticket_id) ==
    [reply |-> SorryPrefix \o CustomerDisplay(customer_name) \o SorryMiddle
                 \o ticket_id \o SorrySuffix,
     ticket_id |-> None, sentiment |-> sentiment]

\* handle_feedback, sentiment == NEGATIVE_FEEDBACK, after create_ticket returned
FeedbackNegative(customer_name, sentiment, ticket_id) ==
    [reply |-> SorryPrefix \o CustomerDisplay(customer_name) \o SorryMiddle
                 \o ticket_id \o SorrySuffix,
     ticket_id |-> Some(ticket_id), sentiment |-> sentiment]

\* handle_feedback, any other sentiment
FeedbackFallback(sentiment) ==
    [reply |-> GenericReply, ticket_id |-> None, sentiment |-> sentiment]

\* handle_feedback run from its first to its last statement, n being the draw that ends
\* the loop of _generate_unique_ticket_id: the dict returned (None when an exception
\* leaves the function), the table afterwards, the exception
handle_feedback(message, sentiment, customer_name, correlation_id, table, n, now) ==
    IF sentiment = POSITIVE_FEEDBACK
    THEN [result |-> Some(FeedbackPositive(customer_name, sentiment)), table |-> table,
          exc |-> "None"]
    ELSE IF sentiment = NEGATIVE_FEEDBACK
    THEN LET ticket_id == GenerateIteration(table, n)[1]
             made == create_ticket(table, ticket_id, message, customer_name,
                                   correlation_id, now)
         IN  IF made.exc # "None"
             THEN [result |-> None, table |-> made.table, exc |-> made.exc]
             ELSE [result |-> Some(FeedbackNegative(customer_name, sentiment, ticket_id)),
                   table |-> made.table, exc |-> "None"]
    ELSE [result |-> Some(FeedbackFallback(sentiment)), table |-> table, exc |-> "None"]

-----------------------------------------------------------------------------
(* agents/query_agent.py *)

\* \w of one character, which \b goes by
IsWordChar(c) == c \in WordChars

\* \b(\d{6})\b matches at i: six digits from i, no word character on either side
PatternMatchesAt(message, i) ==
    /\ i + 5 <= Len(message)
    /\ \A j \in i..(i + 5) : message[j] \in Digits
    /\ (i = 1 \/ ~IsWordChar(message[i - 1]))
    /\ (i + 5 = Len(message) \/ ~IsWordChar(message[i + 6]))

\* TICKET_PATTERN.search(message): the leftmost match, or None
_extract_ticket_id(message) ==
    IF \E i \in 1..Len(message) : PatternMatchesAt(message, i)
    THEN LET i == CHOOSE i \in 1..Len(message) :
                      /\ PatternMatchesAt(message, i)
                      /\ \A j \in 1..(i - 1) : ~PatternMatchesAt(message, j)
         IN  Some(SubSeq(message, i, i + 5))
    ELSE None

\* a plausible slip: the found reply gives the status ahead of the ticket id
handle_query_status_first(message, table) ==
    LET ticket_id == _extract_ticket_id(message)
        ticket    == get_ticket(table, ticket_id[1])
    IN  IF ticket_id = None
        THEN [reply |-> NoTicketNumberReply, ticket_id |-> None, found |-> FALSE]
        ELSE IF ticket = None
        THEN [reply |-> NotFoundPrefix \o ticket_id[1] \o NotFoundSuffix,
              ticket_id |-> ticket_id, found |-> FALSE]
        ELSE [reply |-> ticket[1].status \o FoundMiddle \o FoundPrefix \o ticket_id[1]
                          \o <<".">>,
              ticket_id |-> ticket_id, found |-> TRUE]

handle_query(message, table) ==
    LET ticket_id == _extract_ticket_id(message)
        ticket    == get_ticket(table, ticket_id[1])
    IN  IF ticket_id = None
        THEN [reply |-> NoTicketNumberReply, ticket_id |-> None, found |-> FALSE]
        ELSE IF ticket = None
        THEN [reply |-> NotFoundPrefix \o ticket_id[1] \o NotFoundSuffix,
              ticket_id |-> ticket_id, found |-> FALSE]
        ELSE [reply |-> FoundPrefix \o ticket_id[1] \o FoundMiddle \o ticket[1].status
                          \o <<".">>,
              ticket_id |-> ticket_id, found |-> TRUE]

\* the number of get_ticket calls handle_query makes
handle_query_lookups(message) ==
    IF _extract_ticket_id(message) = None THEN 0 ELSE 1

-----------------------------------------------------------------------------
(* langgraph_impl.py and orchestrator.py: the control flow of a request *)

\* a plausible slip: only the positive label is sent to the feedback node
route_after_classification_positive_only(cls) ==
    IF cls = POSITIVE_FEEDBACK THEN "feedback" ELSE "query"

\* route_after_classification
route_after_classification(cls) ==
    IF cls \in {POSITIVE_FEEDBACK, NEGATIVE_FEEDBACK} THEN "feedback" ELSE "query"

\* build_support_graph: the node that runs after `node`
GraphNext(node, cls) ==
    CASE node = "START" -> "classifier"
      [] node = "classifier" -> route_after_classification(cls)
      [] node = "feedback" -> "END"
      [] node = "query" -> "END"
      [] OTHER -> "END"

\* process_customer_message: the branch taken after `node`
OrchestratorNext(node, cls) ==
    CASE node = "START" -> "classifier"
      [] node = "classifier" ->
           IF cls \in {POSITIVE_FEEDBACK, NEGATIVE_FEEDBACK} THEN "feedback"
           ELSE IF cls = QUERY THEN "query"
           ELSE "unknown"
      [] OTHER -> "END"

HandlerName(node) ==
    CASE node = "feedback" -> "FeedbackAgent"
      [] node = "query" -> "QueryAgent"
      [] OTHER -> "Unknown"

Reqs == 1..NumReqs

Entries == {"graph", "orchestrator"}

CustomerAnn == <<"A", "n", "n">>

\* the calls made to the entry points: message and customer_name
PipelineInputs ==
    { [message |-> << >>, customer_name |-> None],
      [message |-> <<" ">>, customer_name |-> None],
      [message |-> <<"u", "n", "h", "a", "p", "p", "y">>, customer_name |-> Some(CustomerAnn)],
      [message |-> <<"0", "0", "0", "0", "0", "0", "?">>, customer_name |-> None] }

EnvReady == [installed |-> TRUE, api_key |-> TRUE]

\* what the remote does during the classification of a request
PipelineRemote ==
    { [env |-> [installed |-> TRUE, api_key |-> FALSE], outcomes |-> << >>],
      [env |-> EnvReady,
       outcomes |-> <<[kind |-> "raise", text |-> << >>], [kind |-> "timeout", text |-> << >>]>>],
      [env |-> EnvReady,
       outcomes |-> <<[kind |-> "no_choices", text |-> << >>],
                      [kind |-> "content", text |-> RemoteTexts[9]]>>],
      [env |-> EnvReady, outcomes |-> <<[kind |-> "content", text |-> RemoteTexts[1]]>>],
      [env |-> EnvReady, outcomes |-> <<[kind |-> "content", text |-> RemoteTexts[2]]>>],
      [env |-> EnvReady, outcomes |-> <<[kind |-> "content", text |-> RemoteTexts[3]]>>] }

\* random.randint(0, 999999), within the bound
RandomDraws == {n \in 0..MaxDraw : 0 <= n /\ n <= IdMax}

\* uuid.uuid4() of request r: fresh for each request
CorrelationId(r) == <<"cs-", r>>

IdleRequest ==
    [entry |-> "none", pc |-> "Idle", node |-> "START", message |-> << >>,
     customer_name |-> None, correlation_id |-> None, classification |-> NoLabel,
     candidate |-> None, result |-> None, handled_by |-> None, processed_at |-> None,
     out |-> None, invoked |-> << >>, visited |-> << >>, exc |-> "None",
     existing |-> None, now |-> None]

\* the node or branch that runs next in request q
NextNode(q) ==
    IF q.entry = "graph"
    THEN GraphNext(q.node, q.classification)
    ELSE OrchestratorNext(q.node, q.classification)

\* between two nodes, not inside a handler and not ended
BetweenNodes(q) == q.pc \in {"Start", "Classified", "Handled"}

\* run_support_graph: dict(final_state)
GraphFinalState(q) ==
    [message |-> q.message, customer_name |-> q.customer_name,
     correlation_id |-> q.correlation_id[1], classification |-> q.classification,
     reply |-> q.result[1].reply, ticket_id |-> q.result[1].ticket_id,
     handled_by |-> q.handled_by[1], processed_at |-> q.processed_at[1]]

\* process_customer_message: the dict returned after a handler
OrchestratorResult(q) ==
    [original_message |-> q.message, classification |-> q.classification,
     handled_by |-> HandlerName(q.node), reply |-> q.result[1].reply,
     ticket_id |-> q.result[1].ticket_id]

\* process_customer_message: the dict returned when no branch applies
OrchestratorUnknown(q) ==
    [original_message |-> q.message, classification |-> q.classification,
     handled_by |-> "Unknown", reply |-> UnknownReply, ticket_id |-> None]

\* the return statement of node_feedback and node_query: handled_by, and processed_at
\* from the datetime.utcnow() it calls
NodeStamp(q, node, t) ==
    IF q.entry = "graph"
    THEN [q EXCEPT !.handled_by = Some(HandlerName(node)), !.processed_at = Some(t)]
    ELSE q

\* the handler has returned its dict to the caller: the node of the graph has its return
\* statement left to run, process_customer_message has the dict it returns
HandlerReturns(q, result) ==
    IF q.entry = "graph"
    THEN [q EXCEPT !.pc = "Returned", !.result = Some(result)]
    ELSE [q EXCEPT !.pc = "Handled", !.visited = Append(@, "Handled"),
                   !.result = Some(result)]

-----------------------------------------------------------------------------
(* The requests against one store *)

Init ==
    /\ store = << >>
    /\ clock = 0
    /\ wiring \in Entries
    /\ req = [r \in Reqs |-> IdleRequest]
    /\ cmsg = << >>
    /\ cin = [use_llm |-> FALSE, env |-> EnvReady, outcomes |-> << >>]
    /\ cres = [label |-> NoLabel, exc |-> FALSE, path |-> "none", raw |-> None,
               attempts |-> 0, sleeps |-> << >>]
    /\ cphase = "unused"
    /\ hist = {}

\* the entry point is called: run_support_graph (app_streamlit.py, tests/test_harness.py)
\* or process_customer_message
Submit(r) ==
    /\ req[r].pc = "Idle"
    /\ \E inp \in PipelineInputs :
         req' = [req EXCEPT ![r] =
                   [IdleRequest EXCEPT
                      !.entry = wiring, !.pc = "Start", !.visited = <<"Start">>,
                      !.message = inp.message, !.customer_name = inp.customer_name,
                      !.correlation_id =
                          IF wiring = "graph" THEN Some(CorrelationId(r)) ELSE None]]
    /\ UNCHANGED <<store, clock, wiring, cmsg, cin, cres, cphase, hist>>

\* node_classifier, or the first statement of process_customer_message: classify_message
\* is called, and the request waits for it while the other requests run
ClassifierEnter(r) ==
    /\ BetweenNodes(req[r])
    /\ NextNode(req[r]) = "classifier"
    /\ req' = [req EXCEPT ![r].pc = "Classifying"]
    /\ UNCHANGED <<store, clock, wiring, cmsg, cin, cres, cphase, hist>>

\* classify_message returns, its remote attempts and backoff waits over
Classify(r) ==
    /\ req[r].pc = "Classifying"
    /\ \E rb \in PipelineRemote :
         LET res == classify_message(req[r].message, TRUE, rb.env, rb.outcomes)
         IN  req' = [req EXCEPT ![r] =
                       IF res.exc
                       THEN [@ EXCEPT !.pc = "Raised", !.exc = "Exception",
                                      !.invoked = Append(@, "classifier")]
                       ELSE [@ EXCEPT !.pc = "Classified", !.node = "classifier",
                                      !.visited = Append(@, "Classified"),
                                      !.classification = res.label,
                                      !.invoked = Append(@, "classifier")]]
    /\ UNCHANGED <<store, clock, wiring, cmsg, cin, cres, cphase, hist>>

\* the routed node or branch: handle_query with its one get_ticket, or handle_feedback
\* up to its first store call
Dispatch(r) ==
    LET q    == req[r]
        node == NextNode(q)
    IN  /\ BetweenNodes(q)
        /\ node \in {"feedback", "query", "unknown"}
        /\ req' = [req EXCEPT ![r] =
             CASE node = "unknown" ->
                    [q EXCEPT !.pc = "Done", !.node = "END",
                              !.visited = Append(@, "Done"),
                              !.out = Some(OrchestratorUnknown(q))]
               [] node = "query" ->
                    [HandlerReturns(q, handle_query(q.message, store)) EXCEPT
                       !.node = node, !.invoked = Append(@, node)]
               [] node = "feedback" /\ q.classification = POSITIVE_FEEDBACK ->
                    [HandlerReturns(q, FeedbackPositive(q.customer_name,
                                                        q.classification)) EXCEPT
                       !.node = node, !.invoked = Append(@, node)]
               [] node = "feedback" /\ q.classification = NEGATIVE_FEEDBACK ->
                    [q EXCEPT !.pc = "Generating", !.node = node,
                              !.invoked = Append(@, node)]
               [] OTHER ->
                    [HandlerReturns(q, FeedbackFallback(q.classification)) EXCEPT
                       !.node = node, !.invoked = Append(@, node)]]
        /\ UNCHANGED <<store, clock, wiring, cmsg, cin, cres, cphase, hist>>

\* _generate_unique_ticket_id: one draw and its get_ticket; existing keeps what get_ticket
\* returned for the id the function returns
GenerateId(r) ==
    /\ req[r].pc = "Generating"
    /\ \E n \in RandomDraws :
         LET found == GenerateIteration(store, n)
         IN  req' = [req EXCEPT ![r] =
                       IF found = None THEN @
                       ELSE [@ EXCEPT !.pc = "Checked", !.candidate = found,
                                      !.existing = Some(get_ticket(store, found[1]))]]
    /\ UNCHANGED <<store, clock, wiring, cmsg, cin, cres, cphase, hist>>

\* handle_feedback calls create_ticket, which reads datetime.utcnow() into now before it
\* connects to the store
CreateTicketEnter(r) ==
    /\ req[r].pc = "Checked"
    /\ req' = [req EXCEPT ![r] = [@ EXCEPT !.pc = "Stamped", !.now = Some(clock)]]
    /\ UNCHANGED <<store, clock, wiring, cmsg, cin, cres, cphase, hist>>

\* create_ticket from its connect on, and handle_feedback after it: the INSERT and the
\* commit write the now read before as created_at and updated_at, whatever the time is
CreateTicket(r) ==
    LET q    == req[r]
        made == create_ticket(store, q.candidate[1], q.message, q.customer_name,
                              q.correlation_id, q.now[1])
    IN  /\ q.pc = "Stamped"
        /\ store' = made.table
        /\ req' = [req EXCEPT ![r] =
                     IF made.exc # "None"
                     THEN [q EXCEPT !.pc = "Raised", !.exc = made.exc]
                     ELSE HandlerReturns(q, FeedbackNegative(q.customer_name,
                                               q.classification, q.candidate[1]))]
        /\ hist' = HistCreate(hist, q.candidate[1])
        /\ UNCHANGED <<clock, wiring, cmsg, cin, cres, cphase>>

\* node_feedback or node_query returns its dict: processed_at is the utcnow() read now,
\* after the handler's store calls
NodeReturn(r) ==
    LET q == req[r]
    IN  /\ q.pc = "Returned"
        /\ req' = [req EXCEPT ![r] =
                     [NodeStamp(q, q.node, clock) EXCEPT
                        !.pc = "Handled", !.visited = Append(@, "Handled")]]
        /\ UNCHANGED <<store, clock, wiring, cmsg, cin, cres, cphase, hist>>

\* the graph reaches END and invoke returns, or process_customer_message returns its dict
Finish(r) ==
    LET q == req[r]
    IN  /\ BetweenNodes(q)
        /\ q.node \in {"feedback", "query"}
        /\ NextNode(q) = "END"
        /\ req' = [req EXCEPT ![r] =
                     [q EXCEPT !.pc = "Done", !.node = "END",
                               !.visited = Append(@, "Done"),
                               !.handled_by = IF q.entry = "graph" THEN @
                                              ELSE Some(HandlerName(q.node)),
                               !.out = Some(IF q.entry = "graph"
                                            THEN GraphFinalState(q)
                                            ELSE OrchestratorResult(q))]]
        /\ UNCHANGED <<store, clock, wiring, cmsg, cin, cres, cphase, hist>>

\* time passes between two statements of the program
Tick ==
    /\ clock < MaxClock
    /\ clock' = clock + 1
    /\ UNCHANGED <<store, wiring, req, cmsg, cin, cres, cphase, hist>>

Next ==
    \E r \in Reqs :
        \/ Submit(r)
        \/ ClassifierEnter(r)
        \/ Classify(r)
        \/ Dispatch(r)
        \/ GenerateId(r)
        \/ CreateTicketEnter(r)
        \/ CreateTicket(r)
        \/ NodeReturn(r)
        \/ Finish(r)

\* the requests, concurrently, against one store, within one reading of the clock
Spec == Init /\ [][Next]_vars

\* the same with time passing
SpecTimed == Init /\ [][Next \/ Tick]_vars

-----------------------------------------------------------------------------
(* The classifier functions called on their own *)

Fragments ==
    <<
       <<" ">>, <<"\t">>, <<"?">>, <<"H", "o", "w">>, <<"u", "n", "h", "a", "p", "p", "y">>,
       <<"n", "o", "t", " ">>, <<"h", "a", "p", "p", "y">>, <<"T", "h", "a", "n", "k", "s">>,
       <<"x">>, <<"i", "s", "s", "u", "e">>, <<"\f">>,
       <<"t", "h", "a", "n", "U+212A", "s">>
    >>

\* the messages made of at most k fragments
RECURSIVE Concatenations(_)
Concatenations(k) ==
    IF k = 0 THEN {<< >>}
    ELSE LET shorter == Concatenations(k - 1)
         IN  shorter \cup {m \o Fragments[i] : m \in shorter, i \in 1..Len(Fragments)}

ClassifierMessages == Concatenations(MaxFrags)

\* the calls of classify_message: the remote is consulted only with use_llm, the package
\* and the key; what it would answer is there all the same when use_llm is off
ClassifierCalls ==
    {[use_llm |-> FALSE, env |-> EnvReady, outcomes |-> b] : b \in RemoteBehaviours}
    \cup {[use_llm |-> TRUE, env |-> e, outcomes |-> << >>] :
            e \in Environments \ {EnvReady}}
    \cup {[use_llm |-> TRUE, env |-> EnvReady, outcomes |-> b] : b \in RemoteBehaviours}

ClassifierInit ==
    /\ store = << >>
    /\ clock = 0
    /\ wiring = "graph"
    /\ req = [r \in Reqs |-> IdleRequest]
    /\ cmsg \in ClassifierMessages
    /\ cin = [use_llm |-> FALSE, env |-> EnvReady, outcomes |-> << >>]
    /\ cres = [label |-> NoLabel, exc |-> FALSE, path |-> "none", raw |-> None,
               attempts |-> 0, sleeps |-> << >>]
    /\ cphase = "input"
    /\ hist = {}

\* classify_message(message, use_llm)
ClassifyCall ==
    /\ cphase = "input"
    /\ \E c \in ClassifierCalls :
         /\ cin' = c
         /\ cres' = classify_message(cmsg, c.use_llm, c.env, c.outcomes)
    /\ cphase' = "classify_message"
    /\ UNCHANGED <<store, clock, wiring, req, cmsg, hist>>

\* heuristic_classify(message)
HeuristicCall ==
    /\ cphase = "input"
    /\ cres' = [cres EXCEPT !.label = heuristic_classify(cmsg), !.path = "heuristic_only"]
    /\ cphase' = "heuristic_classify"
    /\ UNCHANGED <<store, clock, wiring, req, cmsg, cin, hist>>

\* classifier_agent_wo_llm.classify_message(message)
WoLlmCall ==
    /\ cphase = "input"
    /\ cres' = [cres EXCEPT !.label = wo_llm_classify_message(cmsg),
                            !.path = "heuristic_only"]
    /\ cphase' = "wo_llm_classify_message"
    /\ UNCHANGED <<store, clock, wiring, req, cmsg, cin, hist>>

ClassifierNext == ClassifyCall \/ HeuristicCall \/ WoLlmCall

SpecClassify == ClassifierInit /\ [][ClassifierNext]_vars

-----------------------------------------------------------------------------
(* Claims about the classifier *)

\* C1: whatever the message (empty and whitespace-only included) and whatever the remote
\* does on each attempt (raises, times out, no content, any text), classify_message
\* returns one of the three labels and no exception leaves it.
C1_ClassifyTotal ==
    cphase = "classify_message" => (~cres.exc /\ cres.label \in Labels)

\* C1 witness: both attempts failed with exceptions and a label came back all the same
C1_Witness ==
    /\ cphase = "classify_message"
    /\ cin.use_llm
    /\ Len(cin.outcomes) = 2
    /\ cin.outcomes[1].kind = "raise"
    /\ cin.outcomes[2].kind = "timeout"
    /\ cres.label = NEGATIVE_FEEDBACK

\* the remote gave no usable answer: no attempt was possible, or every attempt raised,
\* timed out or had empty content, or the text that came back maps to no label
RemoteYieldsNothing ==
    \/ ~cin.use_llm
    \/ cin.env # EnvReady
    \/ \A i \in 1..Len(cin.outcomes) : AttemptFails(cin.outcomes[i])
    \/ \E i \in 1..Len(cin.outcomes) :
         /\ \A j \in 1..(i - 1) : AttemptFails(cin.outcomes[j])
         /\ ~AttemptFails(cin.outcomes[i])
         /\ _normalize_label(AttemptContent(cin.outcomes[i])) = NoLabel

\* C7: when the remote path yields no result for a non-empty message, whichever way it
\* failed, classify_message returns the heuristic classification of the trimmed message.
C7_FallbackIsHeuristic ==
    (cphase = "classify_message" /\ cin.use_llm /\ strip(cmsg) # << >>
       /\ RemoteYieldsNothing)
    => (~cres.exc /\ cres.label = heuristic_classify(strip(cmsg)))

\* C7 witness: the remote answered with a text that maps to no label, and the message's
\* own negative cue decided
C7_Witness ==
    /\ cphase = "classify_message"
    /\ cin.use_llm
    /\ cin.env = EnvReady
    /\ Len(cin.outcomes) = 1
    /\ cin.outcomes[1].kind = "content"
    /\ _normalize_label(AttemptContent(cin.outcomes[1])) = NoLabel
    /\ cres.label = NEGATIVE_FEEDBACK

\* the message holds the cue, letter case apart
HasCue(message, cues) ==
    LET folded == lower(message)
    IN  \E i \in 1..Len(cues) :
            \E at \in 1..Len(folded) :
                /\ at + Len(cues[i]) - 1 <= Len(folded)
                /\ \A k \in 1..Len(cues[i]) : folded[at + k - 1] = cues[i][k]

HasQuestionMark(message) == \E at \in 1..Len(message) : message[at] = "?"

\* C8: the heuristic is decided by the first rule that matches: QUERY on a "?" or a
\* question cue, else NEGATIVE_FEEDBACK on a negative cue, else POSITIVE_FEEDBACK on a
\* positive cue, else QUERY; a "?" gives QUERY whatever the sentiment cues.
C8_HeuristicPrecedence ==
    cphase \in {"heuristic_classify", "wo_llm_classify_message"}
    => /\ (HasQuestionMark(cmsg) \/ HasCue(cmsg, question_words)) => cres.label = QUERY
       /\ (~HasQuestionMark(cmsg) /\ ~HasCue(cmsg, question_words)
             /\ HasCue(cmsg, negative_words)) => cres.label = NEGATIVE_FEEDBACK
       /\ (~HasQuestionMark(cmsg) /\ ~HasCue(cmsg, question_words)
             /\ ~HasCue(cmsg, negative_words) /\ HasCue(cmsg, positive_words))
            => cres.label = POSITIVE_FEEDBACK
       /\ (~HasQuestionMark(cmsg) /\ ~HasCue(cmsg, question_words)
             /\ ~HasCue(cmsg, negative_words) /\ ~HasCue(cmsg, positive_words))
            => cres.label = QUERY

\* C8 witness: a "?" next to a negative cue, classified QUERY
C8_Witness ==
    /\ cphase = "heuristic_classify"
    /\ HasQuestionMark(cmsg)
    /\ HasCue(cmsg, negative_words)
    /\ cres.label = QUERY

\* C22: no remote attempt is made (and no backoff wait taken) when use_llm is off or when
\* the message is empty once trimmed, whatever the remote would have answered; with
\* use_llm off the label is the heuristic classification of the message.
C22_DisabledIsHeuristic ==
    cphase = "classify_message" =>
        /\ (~cin.use_llm \/ strip(cmsg) = << >>) =>
              /\ cres.attempts = 0
              /\ cres.sleeps = << >>
              /\ cres.raw = None
              /\ ~cres.exc
        /\ ~cin.use_llm =>
              /\ cres.label = heuristic_classify(cmsg)
              /\ cres.label = wo_llm_classify_message(cmsg)

\* C22 witness: use_llm off, a remote that would have answered with a positive label, and
\* the message's negative cue decided without any attempt
C22_Witness ==
    /\ cphase = "classify_message"
    /\ ~cin.use_llm
    /\ Len(cin.outcomes) = 1
    /\ _normalize_label(AttemptContent(cin.outcomes[1])) = POSITIVE_FEEDBACK
    /\ cres.attempts = 0
    /\ cres.label = NEGATIVE_FEEDBACK

-----------------------------------------------------------------------------
(* Claims about the requests *)

Range(seq) == {seq[i] : i \in 1..Len(seq)}

IsPrefix(a, b) == Len(a) <= Len(b) /\ \A i \in 1..Len(a) : a[i] = b[i]

FeedbackLabels == {POSITIVE_FEEDBACK, NEGATIVE_FEEDBACK}

\* C2: the Feedback Handler is the one invoked, and the one named in handled_by, exactly
\* when the classification is POSITIVE_FEEDBACK or NEGATIVE_FEEDBACK, the Query Handler
\* exactly when it is QUERY; no request is answered by the "Unknown" branch.
C2_RoutingTotal ==
    \A r \in Reqs :
        LET q == req[r]
        IN  /\ "feedback" \in Range(q.invoked) => q.classification \in FeedbackLabels
            /\ "query" \in Range(q.invoked) => q.classification = QUERY
            /\ q.pc = "Done" =>
                 /\ q.classification \in Labels
                 /\ q.out[1].handled_by # "Unknown"
                 /\ q.out[1].handled_by = "FeedbackAgent"
                      <=> q.classification \in FeedbackLabels
                 /\ q.out[1].handled_by = "QueryAgent" <=> q.classification = QUERY
                 /\ "feedback" \in Range(q.invoked)
                      <=> q.classification \in FeedbackLabels
                 /\ "query" \in Range(q.invoked) <=> q.classification = QUERY

\* C2 witness: a negative feedback answered by the Feedback Handler through the graph
C2_Witness ==
    \E r \in Reqs :
        /\ req[r].pc = "Done"
        /\ req[r].entry = "graph"
        /\ req[r].classification = NEGATIVE_FEEDBACK
        /\ req[r].out[1].handled_by = "FeedbackAgent"

\* the decimal digits 0 to 9
AsciiDigits == {"0", "1", "2", "3", "4", "5", "6", "7", "8", "9"}

\* C3: every ticket in the store has an id of six decimal digits, and no two tickets
\* share an id.
C3_TicketIds ==
    /\ \A i \in 1..Len(store) :
         /\ Len(store[i].ticket_id) = 6
         /\ \A k \in 1..6 : store[i].ticket_id[k] \in AsciiDigits
    /\ \A i, j \in 1..Len(store) : i # j => store[i].ticket_id # store[j].ticket_id

\* C3 witness: two tickets created by two requests
C3_Witness ==
    /\ Len(store) = 2
    /\ \E r1, r2 \in Reqs : r1 # r2 /\ req[r1].pc = "Done" /\ req[r2].pc = "Done"

\* the request's create_ticket returned without an exception
Created(q) == q.pc \in {"Returned", "Handled", "Done"} /\ q.candidate # None

\* C4: of two requests that hold the same candidate id, both having passed the
\* existence check, at most one creates the ticket; the store never holds two rows with
\* one id, and the row a request created stays as that request wrote it.
C4_AtomicCreate ==
    /\ \A r1, r2 \in Reqs :
         (r1 # r2 /\ Created(req[r1]) /\ Created(req[r2]))
         => req[r1].candidate # req[r2].candidate
    /\ \A i, j \in 1..Len(store) : i < j => store[i].ticket_id # store[j].ticket_id
    /\ \A r \in Reqs :
         Created(req[r]) =>
           \E i \in 1..Len(store) :
              /\ store[i].ticket_id = req[r].candidate[1]
              /\ store[i].message = req[r].message
              /\ store[i].customer_name = req[r].customer_name
              /\ store[i].correlation_id = req[r].correlation_id

\* C4 witness: two requests passed the check with the same id; one created the ticket,
\* the other's insert was refused
C4_Witness ==
    \E r1, r2 \in Reqs :
        /\ r1 # r2
        /\ req[r1].candidate # None
        /\ req[r1].candidate = req[r2].candidate
        /\ Created(req[r1])
        /\ req[r2].pc = "Raised"
        /\ Len(store) = 1

\* C5: a create refused for a duplicate key is recovered inside the Feedback Handler (a
\* new id is drawn and the create retried), so the duplicate-key failure never reaches
\* the caller of the pipeline.
C5_DuplicateKeyRecovered ==
    \A r \in Reqs : req[r].exc # "IntegrityError"

\* C6: no request ends in a raised failure; a request that has ended returned a result
\* that holds a reply.
C6_AlwaysReply ==
    \A r \in Reqs :
        /\ req[r].pc # "Raised"
        /\ req[r].pc = "Done" =>
             ("reply" \in DOMAIN req[r].out[1] /\ Len(req[r].out[1].reply) > 0)

\* C9: a message that is empty once trimmed is classified QUERY as any other message is
\* classified: the request goes to the Query Handler, never fails, can always take its
\* next step and ends with a reply.
C9_EmptyIsQuery ==
    \A r \in Reqs :
        LET q == req[r]
        IN  (q.pc # "Idle" /\ strip(q.message) = << >>) =>
              /\ q.pc \in {"Start", "Classifying", "Classified", "Returned", "Handled",
                          "Done"}
              /\ q.exc = "None"
              /\ q.pc \notin {"Start", "Classifying"} => q.classification = QUERY
              /\ q.pc # "Done" =>
                   ENABLED (ClassifierEnter(r) \/ Classify(r) \/ Dispatch(r)
                              \/ NodeReturn(r) \/ Finish(r))
              /\ q.pc \in {"Returned", "Handled", "Done"} =>
                   q.invoked = <<"classifier", "query">>
              /\ q.pc = "Done" =>
                   /\ q.out[1].handled_by = "QueryAgent"
                   /\ q.out[1].classification = QUERY
                   /\ Len(q.out[1].reply) > 0

\* C9 witness: a whitespace-only message answered by the Query Handler
C9_Witness ==
    \E r \in Reqs :
        /\ req[r].pc = "Done"
        /\ Len(req[r].message) > 0
        /\ strip(req[r].message) = << >>
        /\ req[r].out[1].handled_by = "QueryAgent"

PipelineStates == <<"Start", "Classified", "Handled", "Done">>

\* the states are entered in order, none twice; the classifier has run once when the
\* request is Classified, and one handler once when it is Handled
InOrderOnce(q) ==
    /\ IsPrefix(q.visited, PipelineStates)
    /\ q.pc \in Range(PipelineStates) => q.visited[Len(q.visited)] = q.pc
    /\ Len(q.visited) <= 1 => q.invoked = << >>
    /\ Len(q.visited) = 2 =>
         \/ q.invoked = <<"classifier">>
         \/ /\ \E h \in {"feedback", "query"} : q.invoked = <<"classifier", h>>
            /\ q.pc \in {"Generating", "Checked", "Stamped", "Raised", "Returned"}
    /\ Len(q.visited) >= 3 =>
         \E h \in {"feedback", "query"} : q.invoked = <<"classifier", h>>

\* C10: each request goes through Start, Classified, Handled, Done in that order, none
\* twice, the classifier invoked once and then one handler once, and the result that is
\* returned holds handled_by and processed_at.
C10_StateMachine ==
    \A r \in Reqs :
        /\ InOrderOnce(req[r])
        /\ req[r].pc = "Done" =>
             {"handled_by", "processed_at"} \subseteq DOMAIN req[r].out[1]

-----------------------------------------------------------------------------
(* Claims about the attempts of the remote path *)

\* C20: one classify call with the remote path enabled makes at most two attempts; the
\* second is made only when the first raised, timed out or had empty content; the first
\* non-empty content ends the attempts; and whenever a second attempt is made, the
\* backoff wait that follows the first attempt has been taken before it.
C20_AttemptsAndBackoff ==
    (cphase = "classify_message" /\ cin.use_llm /\ cin.env = EnvReady
       /\ strip(cmsg) # << >>)
    => /\ cres.attempts \in 1..2
       /\ cres.attempts <= retries
       /\ cres.attempts = 2 => AttemptFails(cin.outcomes[1])
       /\ ~AttemptFails(cin.outcomes[1]) => cres.attempts = 1
       /\ cres.attempts = 2 => InList(BackoffMs * 1, cres.sleeps)

-----------------------------------------------------------------------------
(* _extract_ticket_id called on its own *)

QueryFragments ==
    <<
       <<"1", "2", "3", "4", "5", "6">>, <<"0", "0", "0", "0", "0", "1">>,
       <<"1", "2", "3", "4", "5">>, <<"7">>, <<"a">>, <<"Z">>, <<" ">>, <<"#">>, <<"_">>,
       <<"-">>, <<"é">>, <<"U+0661">>, <<"U+03B1">>, <<"U+09E6">>
    >>

\* the messages made of at most k of these fragments
RECURSIVE QueryConcatenations(_)
QueryConcatenations(k) ==
    IF k = 0 THEN {<< >>}
    ELSE LET shorter == QueryConcatenations(k - 1)
         IN  shorter \cup {m \o QueryFragments[i] : m \in shorter, i \in 1..Len(QueryFragments)}

QueryMessages == QueryConcatenations(MaxFrags)

QueryInit ==
    /\ store = << >>
    /\ clock = 0
    /\ wiring = "graph"
    /\ req = [r \in Reqs |-> IdleRequest]
    /\ cmsg \in QueryMessages
    /\ cin = [message |-> << >>]
    /\ cres = [ticket_id |-> None]
    /\ cphase = "input"
    /\ hist = {}

\* _extract_ticket_id(message)
ExtractCall ==
    /\ cphase = "input"
    /\ cin' = [message |-> cmsg]
    /\ cres' = [ticket_id |-> _extract_ticket_id(cmsg)]
    /\ cphase' = "_extract_ticket_id"
    /\ UNCHANGED <<store, clock, wiring, req, cmsg, hist>>

QueryNext == ExtractCall

SpecQuery == QueryInit /\ [][QueryNext]_vars

-----------------------------------------------------------------------------
(* Claims about the extraction of the ticket id *)

\* six decimal digits from position i, with no digit right before and none right after
SixDigitRunAt(message, i) ==
    /\ i + 5 <= Len(message)
    /\ \A j \in i..(i + 5) : message[j] \in Digits
    /\ (i = 1 \/ message[i - 1] \notin Digits)
    /\ (i + 5 = Len(message) \/ message[i + 6] \notin Digits)

\* C14: the extracted ticket id is the leftmost run of exactly six decimal digits whose
\* neighbours, where present, are not digits (they may be letters); a shorter or longer
\* run gives nothing, nor does any part of it; with no such run the result is none.
C14_LeftmostSixDigitRun ==
    cphase = "_extract_ticket_id" =>
        IF \E i \in 1..Len(cmsg) : SixDigitRunAt(cmsg, i)
        THEN \E i \in 1..Len(cmsg) :
                /\ SixDigitRunAt(cmsg, i)
                /\ \A j \in 1..(i - 1) : ~SixDigitRunAt(cmsg, j)
                /\ cres.ticket_id = Some(SubSeq(cmsg, i, i + 5))
        ELSE cres.ticket_id = None

-----------------------------------------------------------------------------
(* Claims about the tickets the requests create *)

\* request r takes a step
Steps(r) == req'[r] # req[r]

\* request r's create_ticket returns without an exception in this step
CreatesNow(r) == req[r].pc = "Stamped" /\ req'[r].pc \in {"Returned", "Handled"}

\* C11: a step of a request classified POSITIVE_FEEDBACK or QUERY leaves the store as it
\* is; the store changes only by one ticket appended in a step of a request classified
\* NEGATIVE_FEEDBACK; the result of a POSITIVE_FEEDBACK request has no ticket_id.
C11_OnlyNegativeCreates ==
    /\ [][\A r \in Reqs :
            (Steps(r) /\ req[r].classification \in {POSITIVE_FEEDBACK, QUERY})
            => store' = store]_vars
    /\ [][store' # store =>
            /\ Len(store') = Len(store) + 1
            /\ SubSeq(store', 1, Len(store)) = store
            /\ \E r \in Reqs :
                 /\ Steps(r)
                 /\ req[r].classification = NEGATIVE_FEEDBACK]_vars
    /\ [](\A r \in Reqs :
            (req[r].pc \in {"Returned", "Handled", "Done"}
               /\ req[r].classification = POSITIVE_FEEDBACK)
            => (req[r].result[1].ticket_id = None
                  /\ (req[r].pc = "Done" => req[r].out[1].ticket_id = None)))

\* C11 witness: a positive feedback has ended next to a negative feedback, and the
\* store holds the one ticket of the negative feedback
C11_Witness ==
    \E r1, r2 \in Reqs :
        /\ req[r1].pc = "Done"
        /\ req[r1].classification = POSITIVE_FEEDBACK
        /\ req[r1].out[1].ticket_id = None
        /\ req[r2].pc = "Done"
        /\ req[r2].classification = NEGATIVE_FEEDBACK
        /\ Len(store) = 1

\* the rows of the store with the id
RowsWithId(id) == {i \in 1..Len(store) : store[i].ticket_id = id}

\* C12: a completed NEGATIVE_FEEDBACK request has added exactly one ticket: the id was
\* not in the store before, the row has status "Open" and the request's message, the
\* result's ticket_id is that id, the reply embeds it, and get_ticket on it returns the
\* ticket with status "Open".
C12_NegativeCreatesOne ==
    /\ [][\A r \in Reqs :
            CreatesNow(r) =>
              /\ get_ticket(store, req[r].candidate[1]) = None
              /\ Len(store') = Len(store) + 1
              /\ SubSeq(store', 1, Len(store)) = store]_vars
    /\ [](/\ Len(store) = Cardinality({r \in Reqs : Created(req[r])})
          /\ \A r \in Reqs :
               (req[r].pc = "Done" /\ req[r].classification = NEGATIVE_FEEDBACK) =>
                 LET out == req[r].out[1]
                 IN  /\ out.ticket_id # None
                     /\ Cardinality(RowsWithId(out.ticket_id[1])) = 1
                     /\ \A i \in RowsWithId(out.ticket_id[1]) :
                          /\ store[i].status = StatusOpen
                          /\ store[i].message = req[r].message
                     /\ Contains(out.reply, <<"#">> \o out.ticket_id[1])
                     /\ get_ticket(store, out.ticket_id[1]) # None
                     /\ get_ticket(store, out.ticket_id[1])[1].status = StatusOpen
                     /\ get_ticket(store, out.ticket_id[1])[1].ticket_id = out.ticket_id[1])

\* C12 witness: a negative feedback ended with the ticket whose id its reply gives
C12_Witness ==
    \E r \in Reqs :
        /\ req[r].pc = "Done"
        /\ req[r].classification = NEGATIVE_FEEDBACK
        /\ req[r].out[1].ticket_id # None
        /\ get_ticket(store, req[r].out[1].ticket_id[1]) # None
        /\ Contains(req[r].out[1].reply, req[r].out[1].ticket_id[1])

\* C18: a request of the graph entry point carries the correlation id made at entry;
\* when it created a ticket, the stored correlation_id is the one of the returned
\* result, and the record get_ticket returns for the ticket shows it.
C18_CorrelationTraced ==
    \A r \in Reqs :
        req[r].entry = "graph" =>
          /\ req[r].correlation_id = Some(CorrelationId(r))
          /\ (req[r].pc = "Done" /\ Created(req[r])) =>
               LET out == req[r].out[1]
                   got == get_ticket(store, out.ticket_id[1])
               IN  /\ out.correlation_id = CorrelationId(r)
                   /\ \A i \in RowsWithId(out.ticket_id[1]) :
                        store[i].correlation_id = Some(out.correlation_id)
                   /\ got # None
                   /\ "correlation_id" \in DOMAIN got[1]
                   /\ got[1].correlation_id = Some(out.correlation_id)

-----------------------------------------------------------------------------
(* The store and the handlers called one after the other, with time passing *)

\* the ticket ids of the calls made to the store directly
StoreIds == {Format06d(0), Format06d(1)}

StatusClosed == <<"C", "l", "o", "s", "e", "d">>

StatusInProgress == <<"I", "n", " ", "P", "r", "o", "g", "r", "e", "s", "s">>

\* the new_status values of the update_ticket_status calls
NewStatuses == {StatusClosed, StatusInProgress}

StoreMessage == <<"b", "a", "d", " ", "s", "e", "r", "v", "i", "c", "e">>

\* the messages of the handle_query calls: an id in each of two places, and no id
QueryTexts ==
    {<<"0", "0", "0", "0", "0", "0", "?">>,
     <<"#", "0", "0", "0", "0", "0", "1", " ", "p", "l", "e", "a", "s", "e">>,
     <<"h", "e", "l", "l", "o">>}

\* the sentiment values of the handle_feedback calls
Sentiments == Labels \cup {"UNKNOWN"}

\* a ticket was created with the id
Known(h, ticket_id) == \E e \in h : e.ticket_id = ticket_id

StoreInit ==
    /\ store = << >>
    /\ clock = 0
    /\ wiring = "graph"
    /\ req = [r \in Reqs |-> IdleRequest]
    /\ cmsg = << >>
    /\ cin = [ticket_id |-> None]
    /\ cres = [exc |-> "None"]
    /\ cphase = "input"
    /\ hist = {}

\* create_ticket(ticket_id, message, customer_name), then get_ticket(ticket_id)
CreateGetCall ==
    \E id \in StoreIds :
        LET made == create_ticket(store, id, StoreMessage, Some(CustomerAnn), None, clock)
        IN  /\ store' = made.table
            /\ cin' = [ticket_id |-> id, message |-> StoreMessage,
                       customer_name |-> Some(CustomerAnn), existed |-> Known(hist, id)]
            /\ cres' = [exc |-> made.exc, got |-> get_ticket(made.table, id),
                        unchanged |-> made.table = store]
            /\ cphase' = "create_ticket"
            /\ hist' = HistCreate(hist, id)
            /\ UNCHANGED <<clock, wiring, req, cmsg>>

\* update_ticket_status(ticket_id, new_status)
UpdateCall ==
    \E id \in StoreIds, new_status \in NewStatuses :
        LET made == update_ticket_status(store, id, new_status, clock)
        IN  /\ store' = made.table
            /\ cin' = [ticket_id |-> id, new_status |-> new_status,
                       existed |-> Known(hist, id)]
            /\ cres' = [exc |-> made.exc, got |-> get_ticket(made.table, id),
                        unchanged |-> made.table = store]
            /\ cphase' = "update_ticket_status"
            /\ hist' = HistUpdate(hist, id, new_status)
            /\ UNCHANGED <<clock, wiring, req, cmsg>>

\* handle_query(message)
QueryCall ==
    \E message \in QueryTexts :
        /\ cin' = [message |-> message]
        /\ cres' = [exc |-> "None", result |-> Some(handle_query(message, store)),
                    lookups |-> handle_query_lookups(message), unchanged |-> TRUE]
        /\ cphase' = "handle_query"
        /\ UNCHANGED <<store, clock, wiring, req, cmsg, hist>>

\* handle_feedback(message, sentiment, customer_name)
FeedbackCall ==
    \E sentiment \in Sentiments, n \in RandomDraws :
        LET done == handle_feedback(StoreMessage, sentiment, None, None, store, n, clock)
        IN  /\ IF sentiment = NEGATIVE_FEEDBACK
               THEN GenerateIteration(store, n) # None
               ELSE n = 0
            /\ store' = done.table
            /\ cin' = [message |-> StoreMessage, sentiment |-> sentiment]
            /\ cres' = [exc |-> done.exc, result |-> done.result,
                        unchanged |-> done.table = store]
            /\ cphase' = "handle_feedback"
            /\ hist' = IF sentiment = NEGATIVE_FEEDBACK
                       THEN HistCreate(hist, Format06d(n))
                       ELSE hist
            /\ UNCHANGED <<clock, wiring, req, cmsg>>

StoreNext ==
    \/ CreateGetCall
    \/ UpdateCall
    \/ QueryCall
    \/ FeedbackCall
    \/ Tick

SpecStore == StoreInit /\ [][StoreNext]_vars

-----------------------------------------------------------------------------
(* Claims about the store and the handlers *)

\* the status the callers last asked for on the id of a created ticket
HistStatus(h, ticket_id) == (CHOOSE e \in h : e.ticket_id = ticket_id).status

\* C13: with an id extracted from the message, handle_query returns that id as ticket_id
\* and found = TRUE exactly when the store holds a ticket with the id; when found, the
\* reply gives the ticket's current status: the one the last update_ticket_status on the
\* id set, or "Open" when there was none. With no id extracted it returns ticket_id None,
\* found = FALSE and the reply that asks for the 6-digit id, and looks nothing up.
C13_QueryReportsStatus ==
    cphase = "handle_query" =>
        LET id  == _extract_ticket_id(cin.message)
            res == cres.result[1]
        IN  IF id # None
            THEN /\ res.ticket_id = id
                 /\ res.found <=> (\E i \in 1..Len(store) : store[i].ticket_id = id[1])
                 /\ res.found <=> Known(hist, id[1])
                 /\ res.found =>
                      res.reply = FoundPrefix \o id[1] \o FoundMiddle
                                    \o HistStatus(hist, id[1]) \o <<".">>
                 /\ ~res.found => res.reply = NotFoundPrefix \o id[1] \o NotFoundSuffix
            ELSE /\ res.ticket_id = None
                 /\ res.found = FALSE
                 /\ res.reply = NoTicketNumberReply
                 /\ Contains(res.reply, <<"6", "-", "d", "i", "g", "i", "t">>)
                 /\ cres.lookups = 0

\* C13 witness: the query found a ticket whose status an update had set, and reported it
C13_Witness ==
    /\ cphase = "handle_query"
    /\ cres.result[1].found
    /\ cres.result[1].ticket_id # None
    /\ HistStatus(hist, cres.result[1].ticket_id[1]) = StatusClosed
    /\ Contains(cres.result[1].reply, StatusClosed)

\* C15: create_ticket for an id no ticket has, then get_ticket on the id, returns a record
\* with the id, the message and customer_name given, status "Open" and created_at equal
\* to updated_at.
C15_CreateThenGet ==
    (cphase = "create_ticket" /\ ~cin.existed) =>
        /\ cres.exc = "None"
        /\ cres.got # None
        /\ cres.got[1].ticket_id = cin.ticket_id
        /\ cres.got[1].message = cin.message
        /\ cres.got[1].customer_name = cin.customer_name
        /\ cres.got[1].status = StatusOpen
        /\ cres.got[1].created_at = cres.got[1].updated_at

\* C15 witness: a ticket created after time has passed and read back
C15_Witness ==
    /\ cphase = "create_ticket"
    /\ ~cin.existed
    /\ cres.got # None
    /\ cres.got[1].created_at > 0
    /\ Len(store) = 2

\* C16: update_ticket_status for an id no ticket has signals NotFound to the caller and
\* leaves the store as it was.
C16_UpdateMissingSignals ==
    (cphase = "update_ticket_status" /\ ~cin.existed) =>
        /\ cres.exc = "NotFound"
        /\ cres.unchanged
        /\ cres.got = None

\* C17: a ticket keeps its row and its created_at, updated_at is never before
\* created_at, and the status of a ticket changes only in an update_ticket_status
\* call on the ticket's id.
C17_TicketLifecycle ==
    /\ [](\A i \in 1..Len(store) : store[i].updated_at >= store[i].created_at)
    /\ [][\A i \in 1..Len(store) :
            /\ Len(store') >= i
            /\ store'[i].ticket_id = store[i].ticket_id
            /\ store'[i].created_at = store[i].created_at
            /\ store'[i].status # store[i].status =>
                 (cphase' = "update_ticket_status"
                    /\ cin'.ticket_id = store[i].ticket_id)]_vars

\* C17 witness: a ticket whose status an update changed after its creation time, next
\* to a ticket the feedback handler created
C17_Witness ==
    /\ Len(store) = 2
    /\ \E i \in 1..Len(store) :
         /\ store[i].status = StatusInProgress
         /\ store[i].updated_at > store[i].created_at
    /\ \E i \in 1..Len(store) : store[i].customer_name = None

\* C19: handle_feedback called with a sentiment other than POSITIVE_FEEDBACK and
\* NEGATIVE_FEEDBACK ends with an error, returns no reply, and creates no ticket.
C19_UnknownSentimentFails ==
    (cphase = "handle_feedback" /\ cin.sentiment \notin FeedbackLabels) =>
        /\ cres.exc # "None"
        /\ cres.result = None
        /\ cres.unchanged

-----------------------------------------------------------------------------
(* classify_message followed statement by statement through the remote path, with time *)
(* passing and a deadline the caller of the pipeline holds                              *)

\* the messages of the calls: a negative cue, a positive cue, a question, blank
DeadlineMessages ==
    {<<"u", "n", "h", "a", "p", "p", "y">>, <<"T", "h", "a", "n", "k", "s">>,
     <<"H", "o", "w", "?">>, <<" ">>}

\* the caller's deadline, a reading of the clock; classify_message takes no deadline
Deadlines == 1..MaxClock

DeadlineInit ==
    /\ store = << >>
    /\ clock = 0
    /\ wiring = "graph"
    /\ req = [r \in Reqs |-> IdleRequest]
    /\ cmsg \in DeadlineMessages
    /\ cin \in {[deadline |-> d] : d \in Deadlines}
    /\ cres = [attempt |-> 0, started |-> 0, outcomes |-> << >>, log |-> << >>,
               label |-> NoLabel, path |-> "none"]
    /\ cphase = "input"
    /\ hist = {}

\* the attempt or the sleep that ends now, as the log keeps it
LogEntry(kind) ==
    [kind |-> kind, n |-> cres.attempt, from |-> cres.started, to |-> clock]

\* classify_message(message) up to the first openai.ChatCompletion.create, the package
\* and the key being there
ClassifyEnter ==
    /\ cphase = "input"
    /\ IF strip(cmsg) = << >>
       THEN /\ cres' = [cres EXCEPT !.label = QUERY, !.path = "empty"]
            /\ cphase' = "returned"
       ELSE /\ cres' = [cres EXCEPT !.attempt = 1, !.started = clock]
            /\ cphase' = "attempt"
    /\ UNCHANGED <<store, clock, wiring, req, cmsg, cin, hist>>

\* the return of classify_message once _call_openai_chat has returned raw
ReturnFrom(raw, c) ==
    LET label == IF raw # None THEN _normalize_label(raw[1]) ELSE NoLabel
    IN  IF raw # None /\ raw[1] # << >> /\ label # NoLabel
        THEN [c EXCEPT !.label = label, !.path = "llm"]
        ELSE [c EXCEPT !.label = heuristic_classify(strip(cmsg)), !.path = "fallback"]

\* openai.ChatCompletion.create returns or raises, and the loop goes on to its next
\* statement
AttemptEnds ==
    /\ cphase = "attempt"
    /\ \E o \in AttemptOutcomes :
         LET c == [cres EXCEPT !.outcomes = Append(@, o),
                               !.log = Append(@, LogEntry("attempt")),
                               !.started = clock]
         IN  IF o.kind \in ExceptionKinds
             THEN /\ cres' = c
                  /\ cphase' = "backoff"
             ELSE IF AttemptContent(o) # << >>
             THEN /\ cres' = ReturnFrom(Some(AttemptContent(o)), c)
                  /\ cphase' = "returned"
             ELSE IF cres.attempt < retries
             THEN /\ cres' = [c EXCEPT !.attempt = @ + 1]
                  /\ cphase' = "attempt"
             ELSE /\ cres' = ReturnFrom(None, c)
                  /\ cphase' = "returned"
    /\ UNCHANGED <<store, clock, wiring, req, cmsg, cin, hist>>

\* time.sleep(0.5 * attempt) returns, and the loop goes on
BackoffEnds ==
    /\ cphase = "backoff"
    /\ LET c == [cres EXCEPT !.log = Append(@, LogEntry("sleep")), !.started = clock]
       IN  IF cres.attempt < retries
           THEN /\ cres' = [c EXCEPT !.attempt = @ + 1]
                /\ cphase' = "attempt"
           ELSE /\ cres' = ReturnFrom(None, c)
                /\ cphase' = "returned"
    /\ UNCHANGED <<store, clock, wiring, req, cmsg, cin, hist>>

DeadlineNext ==
    \/ ClassifyEnter
    \/ AttemptEnds
    \/ BackoffEnds
    \/ Tick

SpecDeadline == DeadlineInit /\ [][DeadlineNext]_vars

-----------------------------------------------------------------------------
(* Claims about the deadline of the caller *)

\* the deadline expired while the attempt was outstanding
DeadlineHit(e) == e.kind = "attempt" /\ e.from < cin.deadline /\ cin.deadline <= e.to

\* C21: when the caller's deadline expires while a remote attempt is outstanding, the
\* attempt is the last thing the remote path does (no further attempt, no backoff wait)
\* and classify_message returns the heuristic classification of the message.
C21_DeadlineAbandons ==
    cphase \in {"attempt", "backoff", "returned"} =>
        \A i \in 1..Len(cres.log) :
            DeadlineHit(cres.log[i]) =>
                /\ i = Len(cres.log)
                /\ cphase = "returned"
                /\ cres.label = heuristic_classify(strip(cmsg))

-----------------------------------------------------------------------------
(* Claims about the normalisation of the remote's answer *)

IsUpperLetter(c) == \E i \in 1..26 : UpperChars[i] = c

IsUpperLetterOrUnderscore(c) == c = "_" \/ IsUpperLetter(c)

\* the stages: the label itself, else a shorthand once the characters Kept(_) rejects
\* are dropped, else a positive, a negative, a question keyword in the text, each stage
\* looking at the trimmed, upper-cased text (letter case apart for the keywords)
NormalizationStages(text, Kept(_)) ==
    LET t       == upper(strip(text))
        cleaned == SelectSeq(t, Kept)
    IN  IF \E lbl \in Labels : t = LabelText(lbl)
        THEN CHOOSE lbl \in Labels : t = LabelText(lbl)
        ELSE IF InList(cleaned, norm_positive_exact) THEN POSITIVE_FEEDBACK
        ELSE IF InList(cleaned, norm_negative_exact) THEN NEGATIVE_FEEDBACK
        ELSE IF InList(cleaned, norm_query_exact) THEN QUERY
        ELSE IF HasCue(t, norm_positive_keys) THEN POSITIVE_FEEDBACK
        ELSE IF HasCue(t, norm_negative_keys) THEN NEGATIVE_FEEDBACK
        ELSE IF HasCue(t, norm_query_keys) THEN QUERY
        ELSE NoLabel

\* the text of the first attempt that did not fail, None when every attempt failed
FirstAnswer ==
    IF \E i \in 1..Len(cin.outcomes) : ~AttemptFails(cin.outcomes[i])
    THEN LET i == CHOOSE i \in 1..Len(cin.outcomes) :
                      /\ ~AttemptFails(cin.outcomes[i])
                      /\ \A j \in 1..(i - 1) : AttemptFails(cin.outcomes[j])
         IN  Some(AttemptContent(cin.outcomes[i]))
    ELSE None

\* classify_message has consulted the remote for a message that is not empty
RemoteConsulted ==
    cphase = "classify_message" /\ cin.use_llm /\ cin.env = EnvReady /\ strip(cmsg) # << >>

\* C25 as claimed: when an attempt of the remote returns a non-empty text, the label is
\* decided by the stages in order (the label itself; else a shorthand after the
\* non-letter characters are dropped; else a positive, else a negative, else a question
\* keyword), and classify_message returns it whatever the heuristic says of the message.
C25_AsClaimed ==
    (RemoteConsulted /\ FirstAnswer # None) =>
        LET claimed == NormalizationStages(FirstAnswer[1], IsUpperLetter)
        IN  claimed # NoLabel => (~cres.exc /\ cres.label = claimed)

\* C25 as amended: the same with the second stage dropping every character other than
\* the letters and the underscore, so that a text with an underscore left in it matches a
\* shorthand only when the shorthand has the underscore at that place.
C25_NormalizationStages ==
    (RemoteConsulted /\ FirstAnswer # None) =>
        LET staged == NormalizationStages(FirstAnswer[1], IsUpperLetterOrUnderscore)
        IN  /\ staged # NoLabel => (~cres.exc /\ cres.label = staged /\ cres.path = "llm")
            /\ staged = NoLabel => cres.label = heuristic_classify(strip(cmsg))

\* C25 witness: the remote answered with a text that holds a positive and a negative
\* keyword; the positive keyword decided, against the heuristic's label of the message
C25_Witness ==
    /\ RemoteConsulted
    /\ FirstAnswer # None
    /\ HasCue(FirstAnswer[1], norm_positive_keys)
    /\ HasCue(FirstAnswer[1], norm_negative_keys)
    /\ cres.label = POSITIVE_FEEDBACK
    /\ heuristic_classify(cmsg) = NEGATIVE_FEEDBACK

-----------------------------------------------------------------------------
(* handle_query called on its own, and _extract_ticket_id called on the reply *)

\* tests/test_harness.py, case 3
HarnessQuery ==
    <<"W", "h", "a", "t", " ", "i", "s", " ", "t", "h", "e", " ", "s", "t", "a", "t",
      "u", "s", " ", "o", "f", " ", "m", "y", " ", "t", "i", "c", "k", "e", "t", " ",
      "1", "2", "3", "4", "5", "6", "?">>

TwoIdsQuery ==
    <<"0", "0", "0", "0", "0", "1", " ", "o", "r", " ", "1", "2", "3", "4", "5", "6",
      " ", "?">>

\* the messages of the handle_query calls
ReplyMessages == QueryMessages \cup {HarnessQuery, TwoIdsQuery}

ReplyIds == {<<"1", "2", "3", "4", "5", "6">>, Format06d(1)}

\* status is free text: a status made of six digits
StatusDigits == <<"6", "5", "4", "3", "2", "1">>

ReplyStatuses == {StatusClosed, StatusDigits}

\* the tables after no call, after one create_ticket, after an update_ticket_status on it
ReplyStores ==
    LET OneTicket(id) == create_ticket(<< >>, id, StoreMessage, None, None, 0).table
    IN  {<< >>}
        \cup {OneTicket(id) : id \in ReplyIds}
        \cup {update_ticket_status(OneTicket(id), id, st, 0).table :
                id \in ReplyIds, st \in ReplyStatuses}

ReplyInit ==
    /\ store \in ReplyStores
    /\ clock = 0
    /\ wiring = "graph"
    /\ req = [r \in Reqs |-> IdleRequest]
    /\ cmsg \in ReplyMessages
    /\ cin = [message |-> << >>]
    /\ cres = [result |-> None, again |-> None]
    /\ cphase = "input"
    /\ hist = {}

\* handle_query(message)
HandleQueryCall ==
    /\ cphase = "input"
    /\ cin' = [message |-> cmsg]
    /\ cres' = [cres EXCEPT !.result = Some(handle_query(cmsg, store))]
    /\ cphase' = "handle_query"
    /\ UNCHANGED <<store, clock, wiring, req, cmsg, hist>>

\* _extract_ticket_id(reply), the reply being the one handle_query returned
ReparseCall ==
    /\ cphase = "handle_query"
    /\ cres' = [cres EXCEPT !.again = _extract_ticket_id(cres.result[1].reply)]
    /\ cphase' = "reparsed"
    /\ UNCHANGED <<store, clock, wiring, req, cmsg, cin, hist>>

ReplyNext == HandleQueryCall \/ ReparseCall

SpecReply == ReplyInit /\ [][ReplyNext]_vars

-----------------------------------------------------------------------------
(* Claims about the reply of the Query Handler *)

\* the places of the reply where six digits in a row stand
DigitRuns(reply) ==
    {i \in 1..Len(reply) :
        i + 5 <= Len(reply) /\ \A j \in i..(i + 5) : reply[j] \in Digits}

\* C23: for every message and every store, the ticket id extracted from the reply of
\* handle_query is the one extracted from the message (the same six digits, or none when
\* none was extracted), and no six digits in a row stand in the reply ahead of that id.
C23_ReplyReparses ==
    cphase = "reparsed" =>
        LET id    == _extract_ticket_id(cin.message)
            reply == cres.result[1].reply
        IN  /\ cres.again = id
            /\ cres.again = cres.result[1].ticket_id
            /\ id = None => DigitRuns(reply) = {}
            /\ id # None =>
                 /\ DigitRuns(reply) # {}
                 /\ \A i \in DigitRuns(reply) :
                      (\A j \in DigitRuns(reply) : i <= j) => SubSeq(reply, i, i + 5) = id[1]

\* C23 witness: the ticket was found with a status made of six digits, and the reply
\* reparsed to the id of the message
C23_Witness ==
    /\ cphase = "reparsed"
    /\ cres.result[1].found
    /\ Contains(cres.result[1].reply, StatusDigits)
    /\ cin.message = HarnessQuery
    /\ cres.again = Some(<<"1", "2", "3", "4", "5", "6">>)

-----------------------------------------------------------------------------
(* tests/test_harness.py: the cases run one after the other through run_support_graph *)

TEST_CASES ==
    <<
      [id |-> 1, type |-> POSITIVE_FEEDBACK,
       message |->
        <<"T", "h", "a", "n", "k", " ", "y", "o", "u", ",", " ", "y", "o", "u", "r", " ",
          "m", "o", "b", "i", "l", "e", " ", "b", "a", "n", "k", "i", "n", "g", " ", "a",
          "p", "p", " ", "i", "s", " ", "e", "x", "c", "e", "l", "l", "e", "n", "t", "!">>],
      [id |-> 2, type |-> NEGATIVE_FEEDBACK,
       message |->
        <<"M", "o", "n", "e", "y", " ", "w", "a", "s", " ", "d", "e", "b", "i", "t", "e",
          "d", " ", "f", "r", "o", "m", " ", "m", "y", " ", "a", "c", "c", "o", "u", "n",
          "t", " ", "b", "u", "t", " ", "A", "T", "M", " ", "d", "i", "d", " ", "n", "o",
          "t", " ", "d", "i", "s", "p", "e", "n", "s", "e", " ", "c", "a", "s", "h", ".">>],
      [id |-> 3, type |-> QUERY,
       message |->
        <<"W", "h", "a", "t", " ", "i", "s", " ", "t", "h", "e", " ", "s", "t", "a", "t",
          "u", "s", " ", "o", "f", " ", "m", "y", " ", "t", "i", "c", "k", "e", "t", " ",
          "1", "2", "3", "4", "5", "6", "?">>],
      [id |-> 4, type |-> NEGATIVE_FEEDBACK,
       message |->
        <<"V", "e", "r", "y", " ", "u", "n", "h", "a", "p", "p", "y", " ", "w", "i", "t",
          "h", " ", "t", "h", "e", " ", "s", "e", "r", "v", "i", "c", "e", ".", " ", "T",
          "h", "i", "s", " ", "i", "s", " ", "u", "n", "a", "c", "c", "e", "p", "t", "a",
          "b", "l", "e", ".">>],
      [id |-> 5, type |-> QUERY,
       message |->
        <<"H", "o", "w", " ", "c", "a", "n", " ", "I", " ", "r", "e", "s", "e", "t", " ",
          "m", "y", " ", "d", "e", "b", "i", "t", " ", "c", "a", "r", "d", " ", "P", "I",
          "N", "?">>],
      [id |-> 6, type |-> POSITIVE_FEEDBACK,
       message |->
        <<"G", "r", "e", "a", "t", " ", "s", "u", "p", "p", "o", "r", "t", " ", "f", "r",
          "o", "m", " ", "y", "o", "u", "r", " ", "c", "a", "l", "l", " ", "c", "e", "n",
          "t", "e", "r", " ", "t", "e", "a", "m", ".">>],
      [id |-> 7, type |-> NEGATIVE_FEEDBACK,
       message |->
        <<"I", " ", "h", "a", "v", "e", " ", "a", "n", " ", "i", "s", "s", "u", "e", " ",
          "w", "i", "t", "h", " ", "a", "n", " ", "i", "n", "c", "o", "r", "r", "e", "c",
          "t", " ", "c", "h", "a", "r", "g", "e", " ", "o", "n", " ", "m", "y", " ", "a",
          "c", "c", "o", "u", "n", "t", ".">>],
      [id |-> 8, type |-> QUERY,
       message |->
        <<"C", "a", "n", " ", "y", "o", "u", " ", "h", "e", "l", "p", " ", "m", "e", " ",
          "c", "h", "e", "c", "k", " ", "t", "h", "e", " ", "s", "t", "a", "t", "u", "s",
          " ", "o", "f", " ", "m", "y", " ", "c", "o", "m", "p", "l", "a", "i", "n", "t",
          "?">>],
      [id |-> 9, type |-> NEGATIVE_FEEDBACK,
       message |->
        <<"I", " ", "a", "m", " ", "f", "r", "u", "s", "t", "r", "a", "t", "e", "d", ".",
          " ", "M", "y", " ", "a", "c", "c", "o", "u", "n", "t", " ", "w", "a", "s", " ",
          "d", "e", "b", "i", "t", "e", "d", " ", "t", "w", "i", "c", "e", ".">>],
      [id |-> 10, type |-> POSITIVE_FEEDBACK,
       message |->
        <<"T", "h", "a", "n", "k", "s", " ", "f", "o", "r", " ", "r", "e", "s", "o", "l",
          "v", "i", "n", "g", " ", "m", "y", " ", "i", "s", "s", "u", "e", " ", "q", "u",
          "i", "c", "k", "l", "y", "!">>]
    >>

TestUser == <<"T", "e", "s", "t", "U", "s", "e", "r">>

\* what the remote does during the run of the harness, among the ways it has to yield no
\* result: no package, no key, every attempt failed, a text that maps to no label
HarnessRemote ==
    {rb \in {[env |-> e, outcomes |-> << >>] : e \in Environments \ {EnvReady}}
            \cup {[env |-> EnvReady, outcomes |-> o] : o \in RemoteBehaviours} :
        LET call == _call_openai_chat(<<"x">>, rb.env, rb.outcomes)
        IN  call.raw = None \/ _normalize_label(call.raw[1]) = NoLabel}

\* the keys of the record that the turn reads after get_ticket
VerifiedKeys == {"ticket_id", "status", "correlation_id"}

\* the cases of the harness declared NEGATIVE_FEEDBACK
NegativeCases == {i \in 1..Len(TEST_CASES) : TEST_CASES[i].type = NEGATIVE_FEEDBACK}

\* random.randint(0, 999999), within the bound, with a free id for each ticket the harness
\* is to create
HarnessDraws ==
    {n \in 0..(MaxDraw + Cardinality(NegativeCases)) :
        n <= IdMax /\ (n <= MaxDraw \/ n < Cardinality(NegativeCases))}

HarnessInit ==
    /\ store = << >>
    /\ clock = 0
    /\ wiring = "graph"
    /\ req = [r \in Reqs |-> IdleRequest]
    /\ cmsg = << >>
    /\ cin \in {[case |-> 0, env |-> rb.env, outcomes |-> rb.outcomes] : rb \in HarnessRemote}
    /\ cres = [classification |-> NoLabel]
    /\ cphase = "input"
    /\ hist = {}

\* run_support_graph(message=test["message"], customer_name="TestUser") from the label
\* that node_classifier returned to its return, n being the draw that ends the loop of
\* _generate_unique_ticket_id; then, with a ticket_id in the result, get_ticket and the
\* print of the record's ticket_id, status and correlation_id. A key the record has not
\* raises KeyError, which nothing catches: the harness ends there.
RunCaseFrom(test, label) ==
    LET node == GraphNext("classifier", label)
        neg  == node = "feedback" /\ label = NEGATIVE_FEEDBACK
    IN  /\ GraphNext(node, label) = "END"
        /\ \E n \in IF neg THEN HarnessDraws ELSE {0} :
             LET done == IF node = "feedback"
                         THEN handle_feedback(test.message, label, Some(TestUser),
                                              Some(CorrelationId(cin.case + 1)), store,
                                              n, clock)
                         ELSE [result |-> Some(handle_query(test.message, store)),
                               table |-> store, exc |-> "None"]
                 ticket_id == done.result[1].ticket_id
                 ticket == IF ticket_id = None THEN None
                           ELSE get_ticket(done.table, ticket_id[1])
                 raises == ticket # None /\ ~(VerifiedKeys \subseteq DOMAIN ticket[1])
             IN  /\ neg => GenerateIteration(store, n) # None
                 /\ store' = done.table
                 /\ cres' = [classification |-> label,
                             handled_by |-> HandlerName(node),
                             reply |-> done.result[1].reply,
                             ticket_id |-> ticket_id,
                             verified |-> ticket # None,
                             exc |-> IF raises THEN "KeyError" ELSE done.exc]
                 /\ hist' = IF neg THEN HistCreate(hist, Format06d(n)) ELSE hist
                 /\ cphase' = IF raises THEN "raised" ELSE "harness"

\* one turn of the for loop: the next test case classified, then handled and verified
RunCase ==
    /\ cphase \in {"input", "harness"}
    /\ cin.case < Len(TEST_CASES)
    /\ RunCaseFrom(TEST_CASES[cin.case + 1],
                   classify_message(TEST_CASES[cin.case + 1].message, TRUE, cin.env,
                                    cin.outcomes).label)
    /\ cmsg' = TEST_CASES[cin.case + 1].message
    /\ cin' = [cin EXCEPT !.case = @ + 1]
    /\ UNCHANGED <<clock, wiring, req>>

HarnessNext == RunCase

SpecHarness == HarnessInit /\ [][HarnessNext]_vars

-----------------------------------------------------------------------------
(* Claims about the cases of the harness *)

\* C24: each of the ten messages of TEST_CASES, run through the pipeline while the remote
\* yields no result, is classified with the label of the case's type field and handled by
\* the Feedback Handler for the feedback types, by the Query Handler for QUERY.
C24_HarnessTypes ==
    cphase \in {"harness", "raised"} =>
        LET test == TEST_CASES[cin.case]
        IN  /\ cres.classification = test.type
            /\ test.type \in FeedbackLabels => cres.handled_by = "FeedbackAgent"
            /\ test.type = QUERY => cres.handled_by = "QueryAgent"

-----------------------------------------------------------------------------
(* Claims about the generation of the ticket id *)

\* an id of the id space has no ticket in the store
SomeIdUnused == \E n \in RandomDraws : get_ticket(store, Format06d(n)) = None

\* request r can go on
CanStep(r) ==
    ENABLED (\/ ClassifierEnter(r)
             \/ Classify(r)
             \/ Dispatch(r)
             \/ (GenerateId(r) /\ req'[r].pc = "Checked")
             \/ CreateTicketEnter(r)
             \/ CreateTicket(r)
             \/ NodeReturn(r)
             \/ Finish(r))

\* C26: the id that generation returned had no ticket when get_ticket checked it; while
\* an id of the id space is unused, a draw can end the generation; and a NEGATIVE_FEEDBACK
\* request that has its id goes on to its completion: at every point short of it, it has
\* a next step to take.
C26_GenerationCompletes ==
    \A r \in Reqs :
        LET q == req[r]
        IN  /\ q.candidate # None => q.existing = Some(None)
            /\ (q.pc = "Generating" /\ SomeIdUnused) =>
                 ENABLED (GenerateId(r) /\ req'[r].pc = "Checked")
            /\ (q.classification = NEGATIVE_FEEDBACK /\ q.pc # "Done") => CanStep(r)

====
